---------------------------- MODULE Spec2Model ----------------------------
(***************************************************************************)
(* Foster platform layer: the render-device dispatch table                 *)
(* (foster_platform.c, foster_renderer.c) and the OpenGL backend with its  *)
(* state cache and texture reference counting (foster_renderer_opengl.c).  *)
(*                                                                         *)
(* The GL driver is modelled as a record `gl` holding the state the driver *)
(* really has; `fgl` is the backend's cache of it.  Every GL call the      *)
(* backend issues is appended to `calls` and applied to `gl`.              *)
(***************************************************************************)
EXTENDS Integers, Sequences, FiniteSets, TLC

VARIABLES
    build,      \* compile-time configuration (FOSTER_OPENGL_ENABLED)
    fstate,     \* static FosterState fstate (foster_platform.c)
    fgl,        \* static FosterOpenGLState fgl: the state cache
    gl,         \* the GL context: what the driver really holds
    textures,   \* heap of FosterTexture_OpenGL records, by address
    shaders,    \* heap of FosterShader_OpenGL records, by address
    targets,    \* heap of FosterTarget_OpenGL records, by address
    meshes,     \* heap of FosterMesh_OpenGL records, by address
    op,         \* the operation that ran last, its arguments and result
    calls,      \* GL calls issued by the operation that ran last
    sdl,        \* SDL: library initialised, the window and its size in pixels
    proc        \* the process: crashed, memory errors seen, device table resolved

vars == <<build, fstate, fgl, gl, textures, shaders, targets, meshes, op, calls, sdl, proc>>

----------------------------------------------------------------------------
(* Bounds of the model *)

MaxTex == 2                 \* addresses available for texture records
MaxShaders == 2             \* addresses available for shader records
MaxTargets == 1             \* addresses available for target records
MaxMeshes == 1              \* addresses available for mesh records
MaxGLNames == 2             \* names glGen* can hand out per object kind
MaxHeap == 5                \* texture records, and texture names, a target's attachments can take
GLMaxTextureSize == 8       \* GL_MAX_TEXTURE_SIZE reported by the driver

----------------------------------------------------------------------------
(* Program constants *)

FOSTER_MAX_TARGET_ATTACHMENTS == 8
FOSTER_MAX_UNIFORM_TEXTURES == 32

FOSTER_RENDERER_NONE == 0
FOSTER_RENDERER_D3D11 == 1
FOSTER_RENDERER_OPENGL == 2

FOSTER_COMPARE_NONE == 0
FOSTER_COMPARE_ALWAYS == 1
FOSTER_COMPARE_NEVER == 2
FOSTER_COMPARE_LESS == 3
FOSTER_COMPARE_EQUAL == 4
FOSTER_COMPARE_LESS_OR_EQUAL == 5
FOSTER_COMPARE_GREATER == 6
FOSTER_COMPARE_NOT_EQUAL == 7
FOSTER_COMPARE_GREATOR_OR_EQUAL == 8

FOSTER_CULL_NONE == 0
FOSTER_CULL_FRONT == 1
FOSTER_CULL_BACK == 2

FOSTER_BLEND_OP_ADD == 0
FOSTER_BLEND_OP_SUBTRACT == 1
FOSTER_BLEND_OP_REVERSE_SUBTRACT == 2
FOSTER_BLEND_OP_MIN == 3
FOSTER_BLEND_OP_MAX == 4

FOSTER_BLEND_MASK_R == 1
FOSTER_BLEND_MASK_G == 2
FOSTER_BLEND_MASK_B == 4
FOSTER_BLEND_MASK_A == 8

FOSTER_TEXTURE_FILTER_NEAREST == 0
FOSTER_TEXTURE_FILTER_LINEAR == 1

FOSTER_TEXTURE_WRAP_REPEAT == 0
FOSTER_TEXTURE_WRAP_MIRRORED_REPEAT == 1
FOSTER_TEXTURE_WRAP_CLAMP_TO_EDGE == 2
FOSTER_TEXTURE_WRAP_CLAMP_TO_BORDER == 3

FOSTER_TEXTURE_FORMAT_R8G8B8A8 == 0
FOSTER_TEXTURE_FORMAT_R8 == 1
FOSTER_TEXTURE_FORMAT_DEPTH24_STENCIL8 == 2

FOSTER_CLEAR_MASK_COLOR == 1
FOSTER_CLEAR_MASK_DEPTH == 2
FOSTER_CLEAR_MASK_STENCIL == 4

\* FosterUniformType
FOSTER_UNIFORM_TYPE_NONE == 0
FOSTER_UNIFORM_TYPE_FLOAT == 1
FOSTER_UNIFORM_TYPE_FLOAT2 == 2
FOSTER_UNIFORM_TYPE_FLOAT3 == 3
FOSTER_UNIFORM_TYPE_FLOAT4 == 4
FOSTER_UNIFORM_TYPE_MAT3X2 == 5
FOSTER_UNIFORM_TYPE_MAT4X4 == 6
FOSTER_UNIFORM_TYPE_TEXTURE2D == 7
FOSTER_UNIFORM_TYPE_SAMPLER2D == 8

\* FosterIndexFormat
FOSTER_INDEX_FORMAT_SIXTEEN == 0
FOSTER_INDEX_FORMAT_THIRTY_TWO == 1

NULL == 0

----------------------------------------------------------------------------
(* Small helpers *)

\* bit `b` (a power of two) of the non-negative integer `v`: the C expression (v & b) != 0
\* a test that takes any set bit for the bit asked for: the C expression v != 0
BitSet_AnyBit(v, b) == v # 0

BitSet(v, b) == ((v \div b) % 2) = 1

\* FOSTER_RECT_EQUAL
FOSTER_RECT_EQUAL(a, b) == a.x = b.x /\ a.y = b.y /\ a.w = b.w /\ a.h = b.h

Rect(x, y, w, h) == [x |-> x, y |-> y, w |-> w, h |-> h]

\* FosterRect zeroRect = { 0 }
zeroRect == Rect(0, 0, 0, 0)

\* FosterBlend
Blend(cop, csrc, cdst, aop, asrc, adst, mask, rgba) ==
    [colorOp |-> cop, colorSrc |-> csrc, colorDst |-> cdst,
     alphaOp |-> aop, alphaSrc |-> asrc, alphaDst |-> adst,
     mask |-> mask, rgba |-> rgba]

\* FosterBlend zeroBlend = { 0 }
zeroBlend == Blend(0, 0, 0, 0, 0, 0, 0, 0)

TextureSlots == 0 .. (FOSTER_MAX_UNIFORM_TEXTURES - 1)

----------------------------------------------------------------------------
(* Conversion functions of the backend *)

FosterBlendOpToGL(operation) ==
    CASE operation = FOSTER_BLEND_OP_ADD -> "GL_FUNC_ADD"
      [] operation = FOSTER_BLEND_OP_SUBTRACT -> "GL_FUNC_SUBTRACT"
      [] operation = FOSTER_BLEND_OP_REVERSE_SUBTRACT -> "GL_FUNC_REVERSE_SUBTRACT"
      [] operation = FOSTER_BLEND_OP_MIN -> "GL_MIN"
      [] operation = FOSTER_BLEND_OP_MAX -> "GL_MAX"
      [] OTHER -> "GL_FUNC_ADD"

\* the factors the model's blend descriptors use: Zero, One, SrcColor,
\* OneMinusSrcColor, DstColor, OneMinusDstColor, SrcAlpha, OneMinusSrcAlpha
FosterBlendFactorToGL(factor) ==
    CASE factor = 0 -> "GL_ZERO"
      [] factor = 1 -> "GL_ONE"
      [] factor = 2 -> "GL_SRC_COLOR"
      [] factor = 3 -> "GL_ONE_MINUS_SRC_COLOR"
      [] factor = 4 -> "GL_DST_COLOR"
      [] factor = 5 -> "GL_ONE_MINUS_DST_COLOR"
      [] factor = 6 -> "GL_SRC_ALPHA"
      [] factor = 7 -> "GL_ONE_MINUS_SRC_ALPHA"
      [] factor = 8 -> "GL_DST_ALPHA"
      [] factor = 9 -> "GL_ONE_MINUS_DST_ALPHA"
      [] factor = 10 -> "GL_CONSTANT_COLOR"
      [] factor = 11 -> "GL_ONE_MINUS_CONSTANT_COLOR"
      [] factor = 12 -> "GL_CONSTANT_ALPHA"
      [] factor = 13 -> "GL_ONE_MINUS_CONSTANT_ALPHA"
      [] factor = 14 -> "GL_SRC_ALPHA_SATURATE"
      [] factor = 15 -> "GL_SRC1_COLOR"
      [] factor = 16 -> "GL_ONE_MINUS_SRC1_COLOR"
      [] factor = 17 -> "GL_SRC1_ALPHA"
      [] factor = 18 -> "GL_ONE_MINUS_SRC1_ALPHA"
      [] OTHER -> "GL_ZERO"

FosterWrapToGL(wrap) ==
    CASE wrap = FOSTER_TEXTURE_WRAP_REPEAT -> "GL_REPEAT"
      [] wrap = FOSTER_TEXTURE_WRAP_MIRRORED_REPEAT -> "GL_MIRRORED_REPEAT"
      [] wrap = FOSTER_TEXTURE_WRAP_CLAMP_TO_BORDER -> "GL_CLAMP_TO_EDGE"
      [] wrap = FOSTER_TEXTURE_WRAP_CLAMP_TO_EDGE -> "GL_CLAMP_TO_EDGE"
      [] OTHER -> "GL_REPEAT"

FosterFilterToGL(filter) ==
    CASE filter = FOSTER_TEXTURE_FILTER_NEAREST -> "GL_NEAREST"
      [] filter = FOSTER_TEXTURE_FILTER_LINEAR -> "GL_LINEAR"
      [] OTHER -> "GL_NEAREST"

\* the switch of FosterSetCompare: the glDepthFunc argument of a compare value
CompareToGL(compare) ==
    CASE compare = FOSTER_COMPARE_ALWAYS -> "GL_ALWAYS"
      [] compare = FOSTER_COMPARE_EQUAL -> "GL_EQUAL"
      [] compare = FOSTER_COMPARE_GREATER -> "GL_GREATER"
      [] compare = FOSTER_COMPARE_GREATOR_OR_EQUAL -> "GL_GEQUAL"
      [] compare = FOSTER_COMPARE_LESS -> "GL_LESS"
      [] compare = FOSTER_COMPARE_LESS_OR_EQUAL -> "GL_LEQUAL"
      [] compare = FOSTER_COMPARE_NEVER -> "GL_NEVER"
      [] compare = FOSTER_COMPARE_NOT_EQUAL -> "GL_NOTEQUAL"
      [] OTHER -> "none"

\* the switch of FosterSetCull: the glCullFace argument of a cull value
CullToGL(cull) ==
    CASE cull = FOSTER_CULL_BACK -> "GL_BACK"
      [] cull = FOSTER_CULL_FRONT -> "GL_FRONT"
      [] OTHER -> "none"

----------------------------------------------------------------------------
(* The GL driver.  A call is a tuple <<name, arguments...>>. *)

\* a byte of a buffer data store that was allocated and not written since
Undefined == -1

\* the sampling parameters of a new texture object
GLTextureDefaults ==
    [GL_TEXTURE_MIN_FILTER |-> "GL_NEAREST_MIPMAP_LINEAR", GL_TEXTURE_MAG_FILTER |-> "GL_LINEAR",
     GL_TEXTURE_WRAP_S |-> "GL_REPEAT", GL_TEXTURE_WRAP_T |-> "GL_REPEAT"]

\* state of a freshly created context (SDL_GL_CreateContext) for a window of w x h pixels
GLInitialState(w, h) ==
    [context |-> TRUE,
     program |-> 0, framebuffer |-> 0, vertexArray |-> 0,
     viewport |-> Rect(0, 0, w, h),
     scissorTest |-> FALSE, scissor |-> Rect(0, 0, w, h),
     blend |-> FALSE,
     blendEquation |-> <<"GL_FUNC_ADD", "GL_FUNC_ADD">>,
     blendFunc |-> <<"GL_ONE", "GL_ZERO", "GL_ONE", "GL_ZERO">>,
     colorMask |-> <<TRUE, TRUE, TRUE, TRUE>>,
     blendColor |-> <<0, 0, 0, 0>>,
     depthTest |-> FALSE, depthFunc |-> "GL_LESS", depthMask |-> TRUE,
     cullFaceEnabled |-> FALSE, cullFace |-> "GL_BACK",
     activeTexture |-> 0,
     units |-> [u \in TextureSlots |-> 0],
     textureNames |-> {}, deletedTextures |-> {},
     framebufferNames |-> {}, programNames |-> {}, vertexArrayNames |-> {},
     attached |-> {},     \* <<framebuffer, attachment point, texture>>
     params |-> [t \in 1 .. MaxHeap |-> GLTextureDefaults],
     bufferNames |-> {},
     bound |-> [GL_ARRAY_BUFFER |-> 0, GL_ELEMENT_ARRAY_BUFFER |-> 0],
     store |-> [b \in 1 .. MaxGLNames |-> <<>>]]

\* no context: the state before SDL_GL_CreateContext and after SDL_GL_DeleteContext
GLNoContext == [GLInitialState(0, 0) EXCEPT !.context = FALSE]

\* effect of glEnable / glDisable
GLSetCap(g, cap, on) ==
    CASE cap = "GL_SCISSOR_TEST" -> [g EXCEPT !.scissorTest = on]
      [] cap = "GL_DEPTH_TEST" -> [g EXCEPT !.depthTest = on]
      [] cap = "GL_CULL_FACE" -> [g EXCEPT !.cullFaceEnabled = on]
      [] cap = "GL_BLEND" -> [g EXCEPT !.blend = on]
      [] OTHER -> g

\* effect of glBufferSubData(target, offset, size, data) on the data store of the buffer
\* bound to target: GL_INVALID_VALUE and no effect unless the range lies inside the store
GLBufferSubData(g, target, offset, size, data) ==
    LET b == g.bound[target]
    IN  IF b = 0 \/ offset < 0 \/ size < 0 \/ offset + size > Len(g.store[b]) THEN g
        ELSE [g EXCEPT !.store[b] = [k \in DOMAIN @ |-> IF k > offset /\ k <= offset + size
                                                      THEN data[k - offset] ELSE @[k]]]

\* effect of one GL call on the driver state
GLApply(g, c) ==
    CASE c[1] = "SDL_GL_CreateContext" -> GLInitialState(c[2], c[3])
      [] c[1] = "glUseProgram" -> [g EXCEPT !.program = c[2]]
      [] c[1] = "glBindFramebuffer" -> [g EXCEPT !.framebuffer = c[2]]
      [] c[1] = "glBindVertexArray" -> [g EXCEPT !.vertexArray = c[2]]
      [] c[1] = "glViewport" -> [g EXCEPT !.viewport = Rect(c[2], c[3], c[4], c[5])]
      [] c[1] = "glScissor" -> [g EXCEPT !.scissor = Rect(c[2], c[3], c[4], c[5])]
      [] c[1] = "glEnable" -> GLSetCap(g, c[2], TRUE)
      [] c[1] = "glDisable" -> GLSetCap(g, c[2], FALSE)
      [] c[1] = "glBlendEquationSeparate" -> [g EXCEPT !.blendEquation = <<c[2], c[3]>>]
      [] c[1] = "glBlendFuncSeparate" -> [g EXCEPT !.blendFunc = <<c[2], c[3], c[4], c[5]>>]
      [] c[1] = "glColorMask" -> [g EXCEPT !.colorMask = <<c[2], c[3], c[4], c[5]>>]
      [] c[1] = "glBlendColor" -> [g EXCEPT !.blendColor = <<c[2], c[3], c[4], c[5]>>]
      [] c[1] = "glDepthFunc" -> [g EXCEPT !.depthFunc = c[2]]
      [] c[1] = "glDepthMask" -> [g EXCEPT !.depthMask = (c[2] # 0)]
      [] c[1] = "glCullFace" -> [g EXCEPT !.cullFace = c[2]]
      [] c[1] = "glActiveTexture" -> [g EXCEPT !.activeTexture = c[2]]
      [] c[1] = "glBindTexture" -> [g EXCEPT !.units[g.activeTexture] = c[2]]
      [] c[1] = "glGenTextures" ->
            IF c[2] = 0 THEN g
            ELSE [g EXCEPT !.textureNames = @ \cup {c[2]}, !.deletedTextures = @ \ {c[2]},
                           !.params[c[2]] = GLTextureDefaults]
      [] c[1] = "glTexParameteri" ->
            \* a parameter of the texture bound to the active unit
            IF g.units[g.activeTexture] = 0 THEN g
            ELSE [g EXCEPT !.params[g.units[g.activeTexture]][c[2]] = c[3]]
      [] c[1] = "glDeleteTextures" ->
            [g EXCEPT !.textureNames = @ \ {c[2]},
                      !.deletedTextures = IF c[2] \in g.textureNames THEN @ \cup {c[2]} ELSE @,
                      !.attached = {a \in @ : ~(a[1] = g.framebuffer /\ a[3] = c[2])},
                      !.params = IF c[2] \in g.textureNames
                                 THEN [@ EXCEPT ![c[2]] = GLTextureDefaults] ELSE @,
                      !.units = [u \in TextureSlots |-> IF g.units[u] = c[2] THEN 0 ELSE g.units[u]]]
      [] c[1] = "glGenFramebuffers" -> [g EXCEPT !.framebufferNames = @ \cup {c[2]}]
      [] c[1] = "glDeleteFramebuffers" ->
            [g EXCEPT !.framebufferNames = @ \ {c[2]},
                      !.framebuffer = IF @ = c[2] THEN 0 ELSE @,
                      !.attached = {a \in @ : a[1] # c[2]}]
      [] c[1] = "glFramebufferTexture2D" ->
            \* the texture c[3] replaces what the bound framebuffer holds at the point c[2]
            IF g.framebuffer = 0 THEN g
            ELSE [g EXCEPT !.attached = {a \in @ : ~(a[1] = g.framebuffer /\ a[2] = c[2])}
                                        \cup {<<g.framebuffer, c[2], c[3]>>}]
      [] c[1] = "glCreateProgram" -> [g EXCEPT !.programNames = @ \cup {c[2]}]
      [] c[1] = "glDeleteProgram" -> [g EXCEPT !.programNames = @ \ {c[2]}]
      [] c[1] = "glGenVertexArrays" -> [g EXCEPT !.vertexArrayNames = (@ \cup {c[2]}) \ {0}]
      [] c[1] = "glDeleteVertexArrays" ->
            [g EXCEPT !.vertexArrayNames = @ \ {c[2]},
                      !.vertexArray = IF @ = c[2] THEN 0 ELSE @]
      [] c[1] = "glGenBuffers" -> [g EXCEPT !.bufferNames = @ \cup {c[2]}, !.store[c[2]] = <<>>]
      [] c[1] = "glBindBuffer" -> [g EXCEPT !.bound[c[2]] = c[3]]
      [] c[1] = "glBufferData" ->
            \* a new data store of c[3] bytes, contents undefined (data = NULL)
            IF g.bound[c[2]] = 0 \/ c[3] < 0 THEN g
            ELSE [g EXCEPT !.store[g.bound[c[2]]] = [k \in 1 .. c[3] |-> Undefined]]
      [] c[1] = "glBufferSubData" -> GLBufferSubData(g, c[2], c[3], c[4], c[5])
      [] c[1] = "glDeleteBuffers" ->
            [g EXCEPT !.bufferNames = @ \ {c[2]},
                      !.store[c[2]] = <<>>,
                      !.bound = [t \in DOMAIN @ |-> IF @[t] = c[2] THEN 0 ELSE @[t]]]
      [] OTHER -> g

\* the driver executes the calls cs in order, from call i on
RECURSIVE GLRun(_, _, _)
GLRun(g, cs, i) == IF i > Len(cs) THEN g ELSE GLRun(GLApply(g, cs[i]), cs, i + 1)

\* a backend function runs in a context X = [fgl, calls, running, winW, winH];
\* fgl.glXxx(...) hands the call to the driver
Emit(X, c) == [X EXCEPT !.calls = Append(@, c)]

\* besides the cache and the driver the context carries the texture heap `tex`, the
\* messages logged, and what went wrong: uaf (a freed texture record was read or
\* written), dfree (a freed record was freed again), crashed (NULL was dereferenced),
\* oob (an array was indexed outside its bounds);
\* touched: the texture records on whose behalf texture calls were issued
Ctx(cache, running, w, h) ==
    [fgl |-> cache, calls |-> <<>>, running |-> running, winW |-> w, winH |-> h,
     tex |-> textures, errors |-> <<>>, uaf |-> FALSE, dfree |-> FALSE, crashed |-> FALSE,
     touched |-> {}, freed |-> {}, oob |-> FALSE]

----------------------------------------------------------------------------
(* The state cache: binders and setters *)

\* FosterGetSizeInPixels as called by FosterBindFrameBuffer: guarded by
\* FOSTER_ASSERT_RUNNING, it leaves its outputs untouched when not running
FosterGetSizeInPixels(X) ==
    IF ~X.running THEN X
    ELSE [X EXCEPT !.fgl.stateFrameBufferWidth = X.winW,
                   !.fgl.stateFrameBufferHeight = X.winH]

\* GLenum attachments[4], the local array of FosterBindFrameBuffer
DrawBufferCapacity == 4

\* the loop of FosterBindFrameBuffer stores attachments[i] for i < colorAttachmentCount: does
\* it store outside the array
DrawBufferOverflow(colorAttachmentCount) == colorAttachmentCount > DrawBufferCapacity

\* Storing outside the local array is undefined: the process dies, or the stores land in
\* the stack next to the array and glDrawBuffers reads them back from there.
FosterBindFrameBuffer(X, target) ==
    LET framebuffer == IF target = NULL THEN 0 ELSE targets[target].id
        X1 == IF target = NULL THEN FosterGetSizeInPixels(X)
              ELSE [X EXCEPT !.fgl.stateFrameBufferWidth = targets[target].width,
                             !.fgl.stateFrameBufferHeight = targets[target].height]
        X2 == IF X1.fgl.stateInitializing # 0 \/ X1.fgl.stateFrameBuffer # framebuffer
              THEN IF target = NULL
                   THEN Emit(Emit(X1, <<"glBindFramebuffer", framebuffer>>),
                             <<"glDrawBuffers", 1, <<"GL_BACK">>>>)
                   ELSE [Emit(Emit(X1, <<"glBindFramebuffer", framebuffer>>),
                              <<"glDrawBuffers", targets[target].colorAttachmentCount,
                                [i \in 1 .. targets[target].colorAttachmentCount |->
                                    <<"GL_COLOR_ATTACHMENT0", i - 1>>]>>)
                         EXCEPT !.oob = @ \/ DrawBufferOverflow(targets[target].colorAttachmentCount)]
              ELSE X1
    IN  [X2 EXCEPT !.fgl.stateFrameBuffer = framebuffer]

FosterBindProgram(X, id) ==
    LET X1 == IF X.fgl.stateInitializing # 0 \/ X.fgl.stateProgram # id
              THEN Emit(X, <<"glUseProgram", id>>) ELSE X
    IN  [X1 EXCEPT !.fgl.stateProgram = id]

FosterBindArray(X, id) ==
    LET X1 == IF X.fgl.stateInitializing # 0 \/ X.fgl.stateVertexArray # id
              THEN Emit(X, <<"glBindVertexArray", id>>) ELSE X
    IN  [X1 EXCEPT !.fgl.stateVertexArray = id]

\* a viewport setter that passes the caller's rectangle on without the y conversion
FosterSetViewport_NoFlip(X, enabled, rect) ==
    LET viewport == IF enabled # 0 THEN rect
                    ELSE Rect(0, 0, X.fgl.stateFrameBufferWidth, X.fgl.stateFrameBufferHeight)
    IN  IF X.fgl.stateInitializing # 0 \/ ~FOSTER_RECT_EQUAL(viewport, X.fgl.stateViewport)
        THEN [Emit(X, <<"glViewport", viewport.x, viewport.y, viewport.w, viewport.h>>)
                EXCEPT !.fgl.stateViewport = viewport]
        ELSE X

FosterSetViewport(X, enabled, rect) ==
    LET viewport == IF enabled # 0
                    THEN [rect EXCEPT !.y = X.fgl.stateFrameBufferHeight - rect.y - rect.h]
                    ELSE Rect(0, 0, X.fgl.stateFrameBufferWidth, X.fgl.stateFrameBufferHeight)
    IN  IF X.fgl.stateInitializing # 0 \/ ~FOSTER_RECT_EQUAL(viewport, X.fgl.stateViewport)
        THEN [Emit(X, <<"glViewport", viewport.x, viewport.y, viewport.w, viewport.h>>)
                EXCEPT !.fgl.stateViewport = viewport]
        ELSE X

\* a scissor setter that sets the rectangle whenever the scissor is enabled
FosterSetScissor_NoCache(X, enabled, rect) ==
    IF enabled # 0
    THEN [Emit(Emit(X, <<"glEnable", "GL_SCISSOR_TEST">>),
               <<"glScissor", rect.x, X.fgl.stateFrameBufferHeight - rect.y - rect.h, rect.w, rect.h>>)
            EXCEPT !.fgl.stateHasScissor = enabled]
    ELSE [Emit(X, <<"glDisable", "GL_SCISSOR_TEST">>) EXCEPT !.fgl.stateHasScissor = enabled]

\* a scissor setter that looks at the rectangle only, not at the presence flag
FosterSetScissor_RectOnly(X, enabled, rect) ==
    LET s0 == [rect EXCEPT !.y = X.fgl.stateFrameBufferHeight - rect.y - rect.h]
        scissor == [s0 EXCEPT !.w = IF s0.w < 0 THEN 0 ELSE s0.w,
                              !.h = IF s0.h < 0 THEN 0 ELSE s0.h]
    IN  IF X.fgl.stateInitializing # 0 \/ ~FOSTER_RECT_EQUAL(scissor, X.fgl.stateScissor)
        THEN [Emit(X, <<"glScissor", scissor.x, scissor.y, scissor.w, scissor.h>>)
                EXCEPT !.fgl.stateScissor = scissor, !.fgl.stateHasScissor = enabled]
        ELSE X

FosterSetScissor(X, enabled, rect) ==
    LET s0 == [rect EXCEPT !.y = X.fgl.stateFrameBufferHeight - rect.y - rect.h]
        scissor == [s0 EXCEPT !.w = IF s0.w < 0 THEN 0 ELSE s0.w,
                              !.h = IF s0.h < 0 THEN 0 ELSE s0.h]
    IN  IF \/ X.fgl.stateInitializing # 0
           \/ enabled # X.fgl.stateHasScissor
           \/ (enabled # 0 /\ ~FOSTER_RECT_EQUAL(scissor, X.fgl.stateScissor))
        THEN LET X1 == IF enabled # 0
                       THEN LET Xe == IF X.fgl.stateHasScissor = 0
                                      THEN Emit(X, <<"glEnable", "GL_SCISSOR_TEST">>) ELSE X
                            IN  [Emit(Xe, <<"glScissor", scissor.x, scissor.y, scissor.w, scissor.h>>)
                                    EXCEPT !.fgl.stateScissor = scissor]
                       ELSE Emit(X, <<"glDisable", "GL_SCISSOR_TEST">>)
             IN  [X1 EXCEPT !.fgl.stateHasScissor = enabled]
        ELSE X

FosterSetBlend(X, blend) ==
    LET init == X.fgl.stateInitializing # 0
        sb == X.fgl.stateBlend
        X1 == IF init \/ sb.colorOp # blend.colorOp \/ sb.alphaOp # blend.alphaOp
              THEN Emit(X, <<"glBlendEquationSeparate",
                             FosterBlendOpToGL(blend.colorOp), FosterBlendOpToGL(blend.alphaOp)>>)
              ELSE X
        X2 == IF \/ init
                 \/ sb.colorSrc # blend.colorSrc \/ sb.colorDst # blend.colorDst
                 \/ sb.alphaSrc # blend.alphaSrc \/ sb.alphaDst # blend.alphaDst
              THEN Emit(X1, <<"glBlendFuncSeparate",
                              FosterBlendFactorToGL(blend.colorSrc), FosterBlendFactorToGL(blend.colorDst),
                              FosterBlendFactorToGL(blend.alphaSrc), FosterBlendFactorToGL(blend.alphaDst)>>)
              ELSE X1
        X3 == IF init \/ sb.mask # blend.mask
              THEN Emit(X2, <<"glColorMask",
                              BitSet(blend.mask, FOSTER_BLEND_MASK_R), BitSet(blend.mask, FOSTER_BLEND_MASK_G),
                              BitSet(blend.mask, FOSTER_BLEND_MASK_B), BitSet(blend.mask, FOSTER_BLEND_MASK_A)>>)
              ELSE X2
        X4 == IF init \/ sb.rgba # blend.rgba
              THEN Emit(X3, <<"glBlendColor",
                              (blend.rgba \div 16777216) % 256, (blend.rgba \div 65536) % 256,
                              (blend.rgba \div 256) % 256, blend.rgba % 256>>)
              ELSE X3
    IN  [X4 EXCEPT !.fgl.stateBlend = blend]

\* a compare setter that sets the depth function and never enables the depth test
FosterSetCompare_FuncOnly(X, compare) ==
    LET X1 == IF X.fgl.stateInitializing # 0 \/ compare # X.fgl.stateCompare
              THEN IF compare = FOSTER_COMPARE_NONE
                   THEN Emit(X, <<"glDisable", "GL_DEPTH_TEST">>)
                   ELSE IF CompareToGL(compare) # "none"
                        THEN Emit(X, <<"glDepthFunc", CompareToGL(compare)>>) ELSE X
              ELSE X
    IN  [X1 EXCEPT !.fgl.stateCompare = compare]

FosterSetCompare(X, compare) ==
    LET X1 == IF X.fgl.stateInitializing # 0 \/ compare # X.fgl.stateCompare
              THEN IF compare = FOSTER_COMPARE_NONE
                   THEN Emit(X, <<"glDisable", "GL_DEPTH_TEST">>)
                   ELSE LET Xe == IF X.fgl.stateCompare = FOSTER_COMPARE_NONE
                                  THEN Emit(X, <<"glEnable", "GL_DEPTH_TEST">>) ELSE X
                        IN  IF CompareToGL(compare) # "none"
                            THEN Emit(Xe, <<"glDepthFunc", CompareToGL(compare)>>) ELSE Xe
              ELSE X
    IN  [X1 EXCEPT !.fgl.stateCompare = compare]

\* a depth-mask setter that trusts the cache during bring-up too
FosterSetDepthMask_TrustsCache(X, depthMask) ==
    [(IF depthMask # X.fgl.stateDepthMask
      THEN Emit(X, <<"glDepthMask", IF depthMask # 0 THEN 1 ELSE 0>>)
      ELSE X) EXCEPT !.fgl.stateDepthMask = depthMask]

FosterSetDepthMask(X, depthMask) ==
    LET X1 == IF X.fgl.stateInitializing # 0 \/ depthMask # X.fgl.stateDepthMask
              THEN IF depthMask # 0 THEN Emit(X, <<"glDepthMask", 1>>)
                                    ELSE Emit(X, <<"glDepthMask", 0>>)
              ELSE X
    IN  [X1 EXCEPT !.fgl.stateDepthMask = depthMask]

FosterSetCull(X, cull) ==
    LET X1 == IF X.fgl.stateInitializing # 0 \/ cull # X.fgl.stateCull
              THEN IF cull = FOSTER_CULL_NONE
                   THEN Emit(X, <<"glDisable", "GL_CULL_FACE">>)
                   ELSE LET Xe == IF X.fgl.stateCull = FOSTER_CULL_NONE
                                  THEN Emit(X, <<"glEnable", "GL_CULL_FACE">>) ELSE X
                        IN  IF CullToGL(cull) # "none"
                            THEN Emit(Xe, <<"glCullFace", CullToGL(cull)>>) ELSE Xe
              ELSE X
    IN  [X1 EXCEPT !.fgl.stateCull = cull]

----------------------------------------------------------------------------
(* Backend bring-up *)

\* static FosterOpenGLState fgl: zero-initialised
fglZero ==
    [context |-> NULL,
     stateInitializing |-> 0,
     stateActiveTextureSlot |-> 0,
     stateTextureSlots |-> [i \in TextureSlots |-> 0],
     stateProgram |-> 0, stateFrameBuffer |-> 0, stateVertexArray |-> 0,
     stateFrameBufferWidth |-> 0, stateFrameBufferHeight |-> 0,
     stateHasScissor |-> 0,
     stateViewport |-> zeroRect, stateScissor |-> zeroRect,
     stateCompare |-> 0, stateCull |-> 0,
     stateBlend |-> zeroBlend,
     stateDepthMask |-> 0,
     max_texture_size |-> 0]

\* FosterInitialize_OpenGL; contextOk: SDL_GL_CreateContext returned a context.
\* Returns [ok, X].
FosterInitialize_OpenGL(X, contextOk) ==
    IF ~contextOk
    THEN [ok |-> FALSE, X |-> [X EXCEPT !.fgl.context = NULL]]
    ELSE
    LET X0 == [Emit(X, <<"SDL_GL_CreateContext", X.winW, X.winH>>)
                 EXCEPT !.fgl.context = 1, !.fgl.max_texture_size = GLMaxTextureSize]
        X1 == Emit(X0, <<"glEnable", "GL_BLEND">>)
        X2 == [X1 EXCEPT !.fgl.stateInitializing = 1]
        X3 == FosterBindProgram(X2, 0)
        X4 == FosterBindFrameBuffer(X3, NULL)
        X5 == FosterBindArray(X4, 0)
        X6 == FosterSetViewport(X5, 0, zeroRect)
        X7 == FosterSetScissor(X6, 0, zeroRect)
        X8 == FosterSetBlend(X7, zeroBlend)
        X9 == FosterSetCull(X8, FOSTER_CULL_NONE)
        X10 == FosterSetCompare(X9, FOSTER_COMPARE_NONE)
        X11 == FosterSetDepthMask(X10, 0)
        X12 == [X11 EXCEPT !.fgl.stateInitializing = 0,
                           !.fgl.stateActiveTextureSlot = 0]
        X13 == Emit(X12, <<"glActiveTexture", 0>>)
    IN  [ok |-> TRUE,
         X |-> [X13 EXCEPT !.fgl.stateTextureSlots = [i \in TextureSlots |-> 0]]]

----------------------------------------------------------------------------
(* The render-device table *)

\* the function pointers of struct FosterRenderDevice
DeviceFunctions ==
    {"prepare", "initialize", "shutdown", "frameBegin", "frameEnd",
     "textureCreate", "textureSetData", "textureGetData", "textureDestroy",
     "targetCreate", "targetGetAttachment", "targetDestroy",
     "shaderCreate", "shaderSetUniform", "shaderSetTexture", "shaderSetSampler",
     "shaderGetUniforms", "shaderDestroy",
     "meshCreate", "meshSetVertexFormat", "meshSetVertexData",
     "meshSetIndexFormat", "meshSetIndexData", "meshDestroy",
     "draw", "clear"}

\* the functions FosterGetDevice_OpenGL assigns
OpenGLFunctions ==
    {"prepare", "initialize", "shutdown", "frameBegin", "frameEnd",
     "textureCreate", "textureSetData", "textureGetData", "textureDestroy",
     "targetCreate", "targetGetAttachment", "targetDestroy",
     "shaderCreate", "shaderSetUniform", "shaderSetTexture", "shaderSetSampler",
     "shaderGetUniforms", "shaderDestroy",
     "meshCreate", "meshSetVertexFormat", "meshSetVertexData",
     "meshSetIndexFormat", "meshSetIndexData", "meshDestroy",
     "draw", "clear"}

\* the device member of the zero-initialised static fstate
deviceZero == [renderer |-> FOSTER_RENDERER_NONE, fn |-> [f \in DeviceFunctions |-> "NULL"]]

\* FosterGetDevice_OpenGL: both variants, chosen by FOSTER_OPENGL_ENABLED
FosterGetDevice_OpenGL(device) ==
    IF build.opengl
    THEN [ok |-> TRUE,
          device |-> [renderer |-> FOSTER_RENDERER_OPENGL,
                      fn |-> [f \in DeviceFunctions |->
                                 IF f \in OpenGLFunctions THEN "OpenGL" ELSE device.fn[f]]]]
    ELSE [ok |-> FALSE, device |-> [device EXCEPT !.renderer = FOSTER_RENDERER_OPENGL]]

\* FosterGetDevice_D3D11: the placeholder backend reports that it is not available
FosterGetDevice_D3D11(device) == [ok |-> FALSE, device |-> device]

\* a selection that does not replace FOSTER_RENDERER_NONE by the default backend
FosterGetDevice_NoDefault(preferred, device) ==
    CASE preferred = FOSTER_RENDERER_OPENGL -> FosterGetDevice_OpenGL(device)
      [] preferred = FOSTER_RENDERER_D3D11 -> FosterGetDevice_D3D11(device)
      [] OTHER -> [ok |-> FALSE, device |-> device]

FosterGetDevice(preferred, device) ==
    LET chosen == IF preferred = FOSTER_RENDERER_NONE THEN FOSTER_RENDERER_OPENGL ELSE preferred
    IN  CASE chosen = FOSTER_RENDERER_NONE -> [ok |-> FALSE, device |-> device]
          [] chosen = FOSTER_RENDERER_OPENGL -> FosterGetDevice_OpenGL(device)
          [] chosen = FOSTER_RENDERER_D3D11 -> FosterGetDevice_D3D11(device)
          [] OTHER -> [ok |-> FALSE, device |-> device]

----------------------------------------------------------------------------
(* Initial state: a process that has not called FosterStartup yet *)

\* a texture address that malloc never handed out
textureZero ==
    [alloc |-> FALSE, id |-> 0, width |-> 0, height |-> 0, format |-> 0,
     glAttachment |-> <<"GL_NONE", 0>>,
     sampler |-> [filter |-> 0, wrapX |-> 0, wrapY |-> 0],
     refCount |-> 0, disposed |-> 0]

shaderZero ==
    [alloc |-> FALSE, id |-> 0, uniformCount |-> 0, samplerCount |-> 0,
     uniforms |-> <<>>,
     textures |-> [i \in TextureSlots |-> NULL],
     samplers |-> [i \in TextureSlots |-> [filter |-> 0, wrapX |-> 0, wrapY |-> 0]]]

targetZero ==
    [alloc |-> FALSE, id |-> 0, width |-> 0, height |-> 0,
     attachmentCount |-> 0, colorAttachmentCount |-> 0,
     attachments |-> [i \in 0 .. (FOSTER_MAX_TARGET_ATTACHMENTS - 1) |-> NULL]]

\* An object the code never wrote holds an indeterminate value; the model keeps it as
\* one value that stands for all of them.  The local array
\* GLuint textureSlots[FOSTER_MAX_UNIFORM_TEXTURES] of FosterDraw_OpenGL starts so,
\* and so do the fields indexFormat and indexSize of a new mesh.
Uninitialised == -1

meshZero ==
    [alloc |-> FALSE, id |-> 0, indexBuffer |-> 0, vertexBuffer |-> 0,
     indexFormat |-> "none", indexSize |-> 0, vertexBufferSize |-> 0, indexBufferSize |-> 0]

TexAddrs == 1 .. MaxTex
HeapAddrs == 1 .. MaxHeap
ShaderAddrs == 1 .. MaxShaders
TargetAddrs == 1 .. MaxTargets
MeshAddrs == 1 .. MaxMeshes

opNone == [kind |-> "none", arg |-> <<>>, ret |-> "none", device |-> <<>>, errors |-> <<>>]

Init ==
    /\ build \in [opengl : BOOLEAN]
    /\ fstate = [running |-> FALSE, desc |-> [width |-> 0, height |-> 0, renderer |-> 0],
                 window |-> NULL, device |-> deviceZero]
    /\ fgl = fglZero
    /\ gl = GLNoContext
    /\ textures = [a \in HeapAddrs |-> textureZero]
    /\ shaders = [a \in ShaderAddrs |-> shaderZero]
    /\ targets = [a \in TargetAddrs |-> targetZero]
    /\ meshes = [a \in MeshAddrs |-> meshZero]
    /\ op = opNone
    /\ calls = <<>>
    /\ sdl = [init |-> FALSE, window |-> FALSE, winW |-> 0, winH |-> 0]
    /\ proc = [crashed |-> FALSE, uaf |-> FALSE, dfree |-> FALSE, oob |-> FALSE, deviceResolved |-> FALSE]

NoResources ==
    /\ \A a \in HeapAddrs : ~textures[a].alloc
    /\ \A a \in ShaderAddrs : ~shaders[a].alloc
    /\ \A a \in TargetAddrs : ~targets[a].alloc
    /\ \A a \in MeshAddrs : ~meshes[a].alloc

----------------------------------------------------------------------------
(* foster_platform.c: startup, shutdown, frames *)

\* the application descriptions the model starts the platform with
StartupDescs == [width : {0, 4}, height : {-1, 3}, renderer : {0, 1, 2}]

\* FOSTER_ASSERT_RUNNING / FOSTER_ASSERT_RUNNING_RET when fstate.running is false:
\* log an error and return the default
NotRunning(func, arg) ==
    /\ ~fstate.running
    /\ op' = [kind |-> func, arg |-> arg, ret |-> NULL, device |-> <<>>,
              errors |-> <<"Foster is not running">>]
    /\ calls' = <<>>
    /\ UNCHANGED <<build, fstate, fgl, gl, textures, shaders, targets, meshes, sdl, proc>>

\* a call through a NULL entry of the device table
NullCall(func, arg, entry) ==
    /\ op' = [kind |-> func, arg |-> arg, ret |-> NULL, device |-> <<entry>>, errors |-> <<>>]
    /\ calls' = <<>>
    /\ proc' = [proc EXCEPT !.crashed = TRUE]
    /\ UNCHANGED <<build, fstate, fgl, gl, textures, shaders, targets, meshes, sdl>>

\* FosterStartup.  sdlInitOk, windowOk, contextOk: whether SDL_Init, SDL_CreateWindow
\* and SDL_GL_CreateContext succeed.
FosterStartup(desc, sdlInitOk, windowOk, contextOk) ==
    /\ ~proc.crashed
    /\ ~fstate.running
    /\ NoResources
    /\ \E fs0 \in {[fstate EXCEPT !.desc = desc, !.window = NULL, !.running = FALSE,
                                      !.device.renderer = FOSTER_RENDERER_NONE]} :
           \E gd \in {FosterGetDevice(desc.renderer, fs0.device)} :
           \E fs1 \in {[fs0 EXCEPT !.device = gd.device]} :
           \E prepared \in {IF fs1.device.fn["prepare"] # "NULL" THEN <<"prepare">> ELSE <<>>} :
           \E init \in {FosterInitialize_OpenGL(
                           [Ctx(fgl, TRUE, desc.width, desc.height)
                               EXCEPT !.calls = <<<<"SDL_Init">>, <<"SDL_CreateWindow", desc.width, desc.height>>>>],
                           contextOk)} :
           \E r \in {
               IF desc.width <= 0 \/ desc.height <= 0
               THEN [fs |-> fs0, cache |-> fgl, cs |-> <<>>, s |-> sdl, ret |-> "invalid_size", dev |-> <<>>,
                     errs |-> <<"Foster invalid application width/height">>, resolved |-> FALSE]
               ELSE IF ~sdlInitOk
               THEN [fs |-> fs0, cache |-> fgl, cs |-> <<<<"SDL_Init">>>>, s |-> sdl,
                     ret |-> "sdl_init_failed", dev |-> <<>>,
                     errs |-> <<"Foster SDL_Init Failed">>, resolved |-> FALSE]
               ELSE IF ~gd.ok
               THEN [fs |-> fs1, cache |-> fgl, cs |-> <<<<"SDL_Init">>>>, s |-> [sdl EXCEPT !.init = TRUE],
                     ret |-> "no_device", dev |-> <<>>,
                     errs |-> <<"Foster Failed to get Renderer Device">>, resolved |-> FALSE]
               ELSE IF ~windowOk
               THEN [fs |-> fs1, cache |-> fgl,
                     cs |-> <<<<"SDL_Init">>, <<"SDL_CreateWindow", desc.width, desc.height>>>>,
                     s |-> [sdl EXCEPT !.init = TRUE],
                     ret |-> "window_failed", dev |-> prepared,
                     errs |-> <<"Foster SDL_CreateWindow Failed">>, resolved |-> TRUE]
               ELSE IF fs1.device.fn["initialize"] = "NULL"
               THEN [fs |-> [fs1 EXCEPT !.window = 1, !.running = TRUE], cache |-> fgl,
                     cs |-> <<<<"SDL_Init">>, <<"SDL_CreateWindow", desc.width, desc.height>>, <<"SDL_ShowWindow">>>>,
                     s |-> [init |-> TRUE, window |-> TRUE, winW |-> desc.width, winH |-> desc.height],
                     ret |-> "ok", dev |-> prepared, errs |-> <<>>, resolved |-> TRUE]
               ELSE IF ~init.ok
               THEN [fs |-> [fs1 EXCEPT !.window = 1, !.running = FALSE], cache |-> init.X.fgl,
                     cs |-> Append(init.X.calls, <<"SDL_DestroyWindow">>),
                     s |-> [sdl EXCEPT !.init = TRUE, !.window = FALSE],
                     ret |-> "initialize_failed", dev |-> prepared \o <<"initialize">>,
                     errs |-> <<"Failed to create OpenGL Context", "Foster Failed to initialize Renderer Device">>,
                     resolved |-> TRUE]
               ELSE [fs |-> [fs1 EXCEPT !.window = 1, !.running = TRUE], cache |-> init.X.fgl,
                     cs |-> Append(init.X.calls, <<"SDL_ShowWindow">>),
                     s |-> [init |-> TRUE, window |-> TRUE, winW |-> desc.width, winH |-> desc.height],
                     ret |-> "ok", dev |-> prepared \o <<"initialize">>, errs |-> <<>>, resolved |-> TRUE]} :
           /\ UNCHANGED <<build, textures, shaders, targets, meshes>>
           /\ fstate' = r.fs
           /\ fgl' = r.cache
           /\ gl' = GLRun(gl, r.cs, 1)
           /\ calls' = r.cs
           /\ sdl' = r.s
           /\ op' = [kind |-> "FosterStartup", arg |-> desc, ret |-> r.ret, device |-> r.dev, errors |-> r.errs]
           /\ proc' = [proc EXCEPT !.deviceResolved = @ \/ r.resolved]

\* FosterShutdown with FosterShutdown_OpenGL
FosterShutdown ==
    /\ ~proc.crashed
    /\ UNCHANGED <<build, textures, shaders, targets, meshes>>
    /\ IF ~fstate.running
       THEN /\ op' = [opNone EXCEPT !.kind = "FosterShutdown"]
            /\ calls' = <<>>
            /\ UNCHANGED <<fstate, fgl, gl, sdl, proc>>
       ELSE /\ fstate' = [fstate EXCEPT !.running = FALSE]
            /\ IF fstate.device.fn["shutdown"] # "NULL"
               THEN /\ fgl' = [fgl EXCEPT !.context = NULL]
                    /\ gl' = GLNoContext
                    /\ calls' = <<<<"SDL_GL_DeleteContext">>, <<"SDL_DestroyWindow">>, <<"SDL_Quit">>>>
                    /\ op' = [opNone EXCEPT !.kind = "FosterShutdown", !.device = <<"shutdown">>]
               ELSE /\ UNCHANGED <<fgl, gl>>
                    /\ calls' = <<<<"SDL_DestroyWindow">>, <<"SDL_Quit">>>>
                    /\ op' = [opNone EXCEPT !.kind = "FosterShutdown"]
            /\ sdl' = [sdl EXCEPT !.init = FALSE, !.window = FALSE]
            /\ UNCHANGED proc

\* the window is resized by the user or the window manager
WindowSizes == {<<4, 3>>, <<6, 5>>}

ResizeWindow(w, h) ==
    /\ ~proc.crashed
    /\ sdl.window
    /\ <<sdl.winW, sdl.winH>> # <<w, h>>
    /\ sdl' = [sdl EXCEPT !.winW = w, !.winH = h]
    /\ op' = [opNone EXCEPT !.kind = "ResizeWindow", !.arg = <<w, h>>]
    /\ calls' = <<>>
    /\ UNCHANGED <<build, fstate, fgl, gl, textures, shaders, targets, meshes, proc>>

\* the context a backend function starts in
Enter == Ctx(fgl, fstate.running, sdl.winW, sdl.winH)

\* What reading, writing or freeing a freed record does is undefined.  The model
\* follows two outcomes: "stale" (the freed memory still holds its last contents and
\* the allocator does not notice) and "crash" (the process dies).
UBOutcomes == {"stale", "crash"}

Dies(K, ub) == K.crashed \/ (ub = "crash" /\ (K.uaf \/ K.dfree \/ K.oob))

\* a backend function ends in context K: the cache, the driver, the texture heap
\* and the process record take its values
Commit(K, ub) ==
    /\ ub = "crash" => (K.uaf \/ K.dfree \/ K.oob)
    /\ proc' = [proc EXCEPT !.crashed = Dies(K, ub),
                            !.uaf = @ \/ K.uaf,
                            !.dfree = @ \/ K.dfree,
                            !.oob = @ \/ K.oob]
    /\ calls' = K.calls
    /\ IF Dies(K, ub)
       THEN UNCHANGED <<fgl, gl, textures>>
       ELSE /\ fgl' = K.fgl
            /\ gl' = GLRun(gl, K.calls, 1)
            /\ textures' = K.tex

\* FosterBeginFrame with FosterFrameBegin_OpenGL
FosterBeginFrame ==
    /\ ~proc.crashed
    /\ \/ NotRunning("FosterBeginFrame", <<>>)
       \/ /\ fstate.running
          /\ op' = [opNone EXCEPT !.kind = "FosterBeginFrame",
                                  !.device = IF fstate.device.fn["frameBegin"] # "NULL"
                                             THEN <<"frameBegin">> ELSE <<>>]
          /\ calls' = <<>>
          /\ UNCHANGED <<build, fstate, fgl, gl, textures, shaders, targets, meshes, sdl, proc>>

\* FosterEndFrame with FosterFrameEnd_OpenGL
FosterEndFrame ==
    /\ ~proc.crashed
    /\ \/ NotRunning("FosterEndFrame", <<>>)
       \/ /\ fstate.running
          /\ IF fstate.device.fn["frameEnd"] # "NULL"
             THEN /\ Commit(Emit(FosterBindFrameBuffer(Enter, NULL), <<"SDL_GL_SwapWindow">>), "stale")
                  /\ op' = [opNone EXCEPT !.kind = "FosterEndFrame", !.device = <<"frameEnd">>]
             ELSE /\ UNCHANGED <<fgl, gl, textures, proc>>
                  /\ calls' = <<>>
                  /\ op' = [opNone EXCEPT !.kind = "FosterEndFrame"]
          /\ UNCHANGED <<build, fstate, shaders, targets, meshes, sdl>>

----------------------------------------------------------------------------
(* Textures and their reference counts *)

FosterBindTexture(K, slot, id) ==
    LET K1 == IF K.fgl.stateActiveTextureSlot # slot
              THEN [Emit(K, <<"glActiveTexture", 0>>) EXCEPT !.fgl.stateActiveTextureSlot = slot]
              ELSE K
    IN  IF K1.fgl.stateTextureSlots[slot] # id
        THEN Emit(K1, <<"glBindTexture", id>>)
        ELSE K1

FosterEnsureTextureSlotIs(K, slot, id) ==
    IF K.fgl.stateTextureSlots[slot] # id
    THEN LET K1 == IF K.fgl.stateActiveTextureSlot # slot
                   THEN [Emit(K, <<"glActiveTexture", slot>>) EXCEPT !.fgl.stateActiveTextureSlot = slot]
                   ELSE K
         IN  Emit(K1, <<"glBindTexture", id>>)
    ELSE K

\* a read or write of the record at address a: undefined if the record was freed
Access(K, a) == IF K.tex[a].alloc THEN K ELSE [K EXCEPT !.uaf = TRUE]

\* SDL_free(texture)
FreeTexture(K, a) ==
    [K EXCEPT !.tex[a].alloc = FALSE,
              !.dfree = @ \/ ~K.tex[a].alloc,
              !.freed = @ \cup {a}]

FosterTextureReturnReference(K, texture) ==
    IF K.crashed \/ texture = NULL THEN K
    ELSE LET K1 == [Access(K, texture) EXCEPT !.tex[texture].refCount = @ - 1]
         IN  IF K1.tex[texture].refCount <= 0
             THEN FreeTexture(
                    IF K1.tex[texture].disposed = 0
                    THEN [K1 EXCEPT !.errors = Append(@, "Texture is being free'd without deleting its GPU Texture Data")]
                    ELSE K1,
                    texture)
             ELSE K1

\* increments the count of the texture; the caller stores the pointer
FosterTextureRequestReference(K, texture) ==
    IF K.crashed \/ texture = NULL THEN K
    ELSE [Access(K, texture) EXCEPT !.tex[texture].refCount = @ + 1]

TextureFormats ==
    {FOSTER_TEXTURE_FORMAT_R8, FOSTER_TEXTURE_FORMAT_R8G8B8A8, FOSTER_TEXTURE_FORMAT_DEPTH24_STENCIL8}

\* FosterTextureCreate_OpenGL.  name: what glGenTextures returns; addr: what SDL_malloc
\* returns.  Gives [K, ret], ret the address of the new record or NULL.
FosterTextureCreate_OpenGL(K, width, height, format, name, addr) ==
    IF K.crashed THEN [K |-> K, ret |-> NULL]
    ELSE IF width > K.fgl.max_texture_size \/ height > K.fgl.max_texture_size
    THEN [K |-> [K EXCEPT !.errors = Append(@, "Exceeded Max Texture Size")], ret |-> NULL]
    ELSE IF format \notin TextureFormats
    THEN [K |-> [K EXCEPT !.errors = Append(@, "Invalid Texture Format")], ret |-> NULL]
    ELSE LET K1 == Emit(K, <<"glGenTextures", name>>)
         IN  IF name = 0
             THEN [K |-> [K1 EXCEPT !.errors = Append(@, "Failed to create Texture")], ret |-> NULL]
             ELSE LET K2 == Emit(FosterBindTexture(K1, 0, name), <<"glTexImage2D", width, height, format>>)
                  IN  [K |-> [K2 EXCEPT !.tex[addr] =
                                  [alloc |-> TRUE, id |-> name, width |-> width, height |-> height,
                                   format |-> format, glAttachment |-> <<"GL_NONE", 0>>,
                                   sampler |-> [filter |-> -1, wrapX |-> -1, wrapY |-> -1],
                                   refCount |-> 1, disposed |-> 0]],
                       ret |-> addr]

\* FosterTextureDestroy_OpenGL
FosterTextureDestroy_OpenGL(K, texture) ==
    IF K.crashed THEN K
    ELSE IF texture = NULL THEN [K EXCEPT !.crashed = TRUE]
    ELSE LET K1 == Access(K, texture)
         IN  IF K1.tex[texture].disposed = 0
             THEN FosterTextureReturnReference(
                    Emit([K1 EXCEPT !.tex[texture].disposed = 1],
                         <<"glDeleteTextures", K1.tex[texture].id>>),
                    texture)
             ELSE K1

\* FosterTextureSetData_OpenGL
FosterTextureSetData_OpenGL(K, texture) ==
    LET K1 == Access(K, texture)
    IN  Emit(FosterBindTexture(K1, 0, K1.tex[texture].id),
             <<"glTexImage2D", K1.tex[texture].width, K1.tex[texture].height, K1.tex[texture].format>>)

\* FosterTextureGetData_OpenGL
FosterTextureGetData_OpenGL(K, texture) ==
    LET K1 == Access(K, texture)
    IN  Emit(FosterBindTexture(K1, 0, K1.tex[texture].id),
             <<"glGetTexImage", K1.tex[texture].format>>)

FosterSetTextureSampler(K, tex, sampler) ==
    LET K0 == Access(K, tex)
        t == K0.tex[tex]
    IN  IF t.disposed = 0 /\ (t.sampler.filter # sampler.filter \/ t.sampler.wrapX # sampler.wrapX
                               \/ t.sampler.wrapY # sampler.wrapY)
        THEN LET K1 == FosterBindTexture([K0 EXCEPT !.touched = @ \cup {tex}], 0, t.id)
                 K2 == IF t.sampler.filter # sampler.filter
                       THEN Emit(Emit(K1, <<"glTexParameteri", "GL_TEXTURE_MIN_FILTER", FosterFilterToGL(sampler.filter)>>),
                                 <<"glTexParameteri", "GL_TEXTURE_MAG_FILTER", FosterFilterToGL(sampler.filter)>>)
                       ELSE K1
                 K3 == IF t.sampler.wrapX # sampler.wrapX
                       THEN Emit(K2, <<"glTexParameteri", "GL_TEXTURE_WRAP_S", FosterWrapToGL(sampler.wrapX)>>)
                       ELSE K2
                 K4 == IF t.sampler.wrapY # sampler.wrapY
                       THEN Emit(K3, <<"glTexParameteri", "GL_TEXTURE_WRAP_T", FosterWrapToGL(sampler.wrapY)>>)
                       ELSE K3
             IN  [K4 EXCEPT !.tex[tex].sampler = sampler]
        ELSE K0

----------------------------------------------------------------------------
(* Public wrappers of foster_platform.c *)

\* a public operation that goes to the device table without FOSTER_ASSERT_RUNNING
Public_NoAssert(func, entry, arg, Body) ==
    /\ ~proc.crashed
    /\ IF fstate.device.fn[entry] = "NULL" THEN NullCall(func, arg, entry)
       ELSE Body

\* a public operation: FOSTER_ASSERT_RUNNING, then the call through the device table
Public(func, entry, arg, Body) ==
    /\ ~proc.crashed
    /\ IF ~fstate.running THEN NotRunning(func, arg)
       ELSE IF fstate.device.fn[entry] = "NULL" THEN NullCall(func, arg, entry)
       ELSE Body

\* the result of a backend function that ran
Ran(func, entry, arg, ret, K, ub) ==
    op' = [kind |-> func, arg |-> arg,
           ret |-> IF Dies(K, ub) THEN "crash" ELSE ret,
           device |-> <<entry>>, errors |-> K.errors]

\* names glGen* / glCreate* may return: 0 or a name that is not in use
FreshNames(used) == {0} \cup ((1 .. MaxGLNames) \ used)

FreeTexAddrs == {a \in TexAddrs : ~textures[a].alloc}

\* a valid texture handle: the address of a record that has not been freed
ValidTexture(t) == t \in HeapAddrs /\ textures[t].alloc

\* FosterTextureCreate
FosterTextureCreate(width, height, format, name, addr) ==
    Public("FosterTextureCreate", "textureCreate", <<width, height, format>>,
        /\ name \in FreshNames(gl.textureNames)
        /\ addr \in FreeTexAddrs
        /\ LET r == FosterTextureCreate_OpenGL(Enter, width, height, format, name, addr)
           IN  /\ Commit(r.K, "stale")
               /\ Ran("FosterTextureCreate", "textureCreate", <<width, height, format>>, r.ret, r.K, "stale")
        /\ UNCHANGED <<build, fstate, shaders, targets, meshes, sdl>>)

\* FosterTextureSetData
FosterTextureSetData(texture) ==
    Public("FosterTextureSetData", "textureSetData", texture,
        /\ ValidTexture(texture)
        /\ Commit(FosterTextureSetData_OpenGL(Enter, texture), "stale")
        /\ Ran("FosterTextureSetData", "textureSetData", texture, NULL, Enter, "stale")
        /\ UNCHANGED <<build, fstate, shaders, targets, meshes, sdl>>)

\* FosterTextureGetData
FosterTextureGetData(texture) ==
    Public("FosterTextureGetData", "textureGetData", texture,
        /\ ValidTexture(texture)
        /\ Commit(FosterTextureGetData_OpenGL(Enter, texture), "stale")
        /\ Ran("FosterTextureGetData", "textureGetData", texture, NULL, Enter, "stale")
        /\ UNCHANGED <<build, fstate, shaders, targets, meshes, sdl>>)

\* the attachments of the targets that have not been destroyed
OwnedByTarget == {targets[a].attachments[i] :
                     a \in {b \in TargetAddrs : targets[b].alloc},
                     i \in 0 .. (FOSTER_MAX_TARGET_ATTACHMENTS - 1)} \ {NULL}

\* FosterTextureDestroy.  The caller passes a texture it created, or an attachment of a
\* target that is gone (the attachments of a target are destroyed by the target).
FosterTextureDestroy(texture, ub) ==
    Public("FosterTextureDestroy", "textureDestroy", texture,
        /\ ValidTexture(texture)
        /\ texture \notin OwnedByTarget
        /\ LET K == FosterTextureDestroy_OpenGL(Enter, texture)
           IN  /\ Commit(K, ub)
               /\ Ran("FosterTextureDestroy", "textureDestroy", texture, NULL, K, ub)
        /\ UNCHANGED <<build, fstate, shaders, targets, meshes, sdl>>)

----------------------------------------------------------------------------
(* Shaders *)

\* the active uniforms the driver reports for the programs the model links: what
\* glGetActiveUniform gives for each.  A name is the sequence of its characters; the
\* driver reports an array under the name of its first element.
Programs ==
    {<<>>,
     <<[glType |-> "GL_SAMPLER_2D", glSize |-> 1, name |-> <<"t">>]>>,
     <<[glType |-> "GL_FLOAT_VEC4", glSize |-> 1, name |-> <<"c">>],
       [glType |-> "GL_SAMPLER_2D", glSize |-> 2, name |-> <<"t", "[", "0", "]">>]>>}

\* FosterShaderData with what the driver makes of it
ShaderDatas ==
    [vertexShader : {"vs"}, fragmentShader : {"fs"}, compiles : {TRUE}, links : {TRUE}, uniforms : Programs]
    \cup [vertexShader : {"NULL", "vs"}, fragmentShader : {"NULL"}, compiles : {TRUE}, links : {TRUE}, uniforms : {<<>>}]
    \cup [vertexShader : {"vs"}, fragmentShader : {"fs"}, compiles : {TRUE, FALSE}, links : {FALSE}, uniforms : {<<>>}]

\* the name loop of FosterShaderCreate_OpenGL from position n (0-based) on: the name is
\* cut at the first "[0]" the loop meets
RECURSIVE StripName(_, _)
StripName(nameBuf, n) ==
    IF n < Len(nameBuf) - 2
    THEN IF nameBuf[n + 1] = "[" /\ nameBuf[n + 2] = "0" /\ nameBuf[n + 3] = "]"
         THEN SubSeq(nameBuf, 1, n)
         ELSE StripName(nameBuf, n + 1)
    ELSE nameBuf

\* glGetUniformLocation(id, name) for the uniform the driver reports as native, the n-th
\* of the program: -1 unless name is the name of the uniform or of the array
UniformLocation(name, native, n) ==
    IF name = native \/ name \o <<"[", "0", "]">> = native THEN n - 1 ELSE -1

\* a reflection in which every sampler uniform starts at slot 0
RECURSIVE ReflectUniforms_SharedSlots(_, _)
ReflectUniforms_SharedSlots(active, n) ==
    IF n = 0 THEN [uniforms |-> <<>>, samplerCount |-> 0]
    ELSE LET prev == ReflectUniforms_SharedSlots(active, n - 1)
             u == active[n]
             isSampler == u.glType = "GL_SAMPLER_2D"
             name == StripName(u.name, 0)
         IN  [uniforms |-> Append(prev.uniforms,
                                  [name |-> name,
                                   samplerName |-> IF isSampler
                                                   THEN name \o <<"_", "s", "a", "m", "p", "l", "e", "r">>
                                                   ELSE <<>>,
                                   glLocation |-> UniformLocation(name, u.name, n),
                                   glSize |-> u.glSize, glType |-> u.glType,
                                   samplerIndex |-> 0]),
              samplerCount |-> IF isSampler THEN prev.samplerCount + u.glSize ELSE prev.samplerCount]

\* the reflection loop of FosterShaderCreate_OpenGL: uniforms 1..n of the reflected list
\* with their sampler indices; gives [uniforms, samplerCount]
RECURSIVE ReflectUniforms(_, _)
ReflectUniforms(active, n) ==
    IF n = 0 THEN [uniforms |-> <<>>, samplerCount |-> 0]
    ELSE LET prev == ReflectUniforms(active, n - 1)
             u == active[n]
             isSampler == u.glType = "GL_SAMPLER_2D"
             name == StripName(u.name, 0)
         IN  [uniforms |-> Append(prev.uniforms,
                                  [name |-> name,
                                   samplerName |-> IF isSampler
                                                   THEN name \o <<"_", "s", "a", "m", "p", "l", "e", "r">>
                                                   ELSE <<>>,
                                   glLocation |-> UniformLocation(name, u.name, n),
                                   glSize |-> u.glSize, glType |-> u.glType,
                                   samplerIndex |-> IF isSampler THEN prev.samplerCount ELSE 0]),
              samplerCount |-> IF isSampler THEN prev.samplerCount + u.glSize ELSE prev.samplerCount]

FreeShaderAddrs == {a \in ShaderAddrs : ~shaders[a].alloc}
ValidShader(sh) == sh \in ShaderAddrs /\ shaders[sh].alloc

\* FosterShaderCreate with FosterShaderCreate_OpenGL.  name: what glCreateProgram returns.
FosterShaderCreate(data, name, addr) ==
    Public("FosterShaderCreate", "shaderCreate", data,
        LET K == Enter
            fail(K1, msg) ==
                /\ Commit([K1 EXCEPT !.errors = Append(@, msg)], "stale")
                /\ Ran("FosterShaderCreate", "shaderCreate", data, NULL, [K1 EXCEPT !.errors = Append(@, msg)], "stale")
                /\ UNCHANGED shaders
            refl == ReflectUniforms(data.uniforms, Len(data.uniforms))
        IN  /\ name \in FreshNames(gl.programNames) \ {0}
            /\ addr \in FreeShaderAddrs
            /\ UNCHANGED <<build, fstate, targets, meshes, sdl>>
            /\ IF data.vertexShader = "NULL" THEN fail(K, "Invalid Vertex Shader")
               ELSE IF data.fragmentShader = "NULL" THEN fail(K, "Invalid Fragment Shader")
               ELSE IF ~data.compiles
               THEN fail(Emit(Emit(K, <<"glCreateShader", "GL_VERTEX_SHADER">>), <<"glDeleteShader">>),
                         "shader compile log")
               ELSE IF ~data.links
               THEN fail(Emit(K, <<"glCreateProgram", name>>), "program link log")
               ELSE LET K1 == Emit(K, <<"glCreateProgram", name>>)
                    IN  /\ Commit(K1, "stale")
                        /\ Ran("FosterShaderCreate", "shaderCreate", data, addr, K1, "stale")
                        /\ shaders' = [shaders EXCEPT ![addr] =
                              [alloc |-> TRUE, id |-> name,
                               uniformCount |-> Len(data.uniforms),
                               samplerCount |-> refl.samplerCount,
                               uniforms |-> refl.uniforms,
                               textures |-> [i \in TextureSlots |-> NULL],
                               samplers |-> [i \in TextureSlots |->
                                    [filter |-> FOSTER_TEXTURE_FILTER_LINEAR,
                                     wrapX |-> FOSTER_TEXTURE_WRAP_CLAMP_TO_EDGE,
                                     wrapY |-> FOSTER_TEXTURE_WRAP_CLAMP_TO_EDGE]]]])

\* FosterUniformTypeFromGL
FosterUniformTypeFromGL(value) ==
    CASE value = "GL_FLOAT" -> FOSTER_UNIFORM_TYPE_FLOAT
      [] value = "GL_FLOAT_VEC2" -> FOSTER_UNIFORM_TYPE_FLOAT2
      [] value = "GL_FLOAT_VEC3" -> FOSTER_UNIFORM_TYPE_FLOAT3
      [] value = "GL_FLOAT_VEC4" -> FOSTER_UNIFORM_TYPE_FLOAT4
      [] value = "GL_FLOAT_MAT3x2" -> FOSTER_UNIFORM_TYPE_MAT3X2
      [] value = "GL_FLOAT_MAT4" -> FOSTER_UNIFORM_TYPE_MAT4X4
      [] value = "GL_SAMPLER_2D" -> FOSTER_UNIFORM_TYPE_SAMPLER2D
      [] OTHER -> FOSTER_UNIFORM_TYPE_NONE

\* one FosterUniformInfo
UniformInfo(index, name, type, arrayElements) ==
    [index |-> index, name |-> name, type |-> type, arrayElements |-> arrayElements]

\* a listing with one entry for a sampler uniform
UniformEntries_NoSplit(i, uniform) ==
    <<UniformInfo(i, uniform.name, FosterUniformTypeFromGL(uniform.glType), uniform.glSize)>>

\* the body of the loop of FosterShaderGetUniforms_OpenGL: the entries of uniform i
UniformEntries(i, uniform) ==
    IF uniform.glType = "GL_SAMPLER_2D"
    THEN <<UniformInfo(i, uniform.name, FOSTER_UNIFORM_TYPE_TEXTURE2D, uniform.glSize),
           UniformInfo(i, uniform.samplerName, FOSTER_UNIFORM_TYPE_SAMPLER2D, uniform.glSize)>>
    ELSE <<UniformInfo(i, uniform.name, FosterUniformTypeFromGL(uniform.glType), uniform.glSize)>>

\* the loop of FosterShaderGetUniforms_OpenGL from uniform i (0-based) on; output: the
\* entries written so far, output[t + 1] the entry at position t
RECURSIVE FosterShaderGetUniforms_OpenGL(_, _, _, _)
FosterShaderGetUniforms_OpenGL(it, output, max, i) ==
    IF Len(output) < max /\ i < it.uniformCount
    THEN FosterShaderGetUniforms_OpenGL(it, output \o UniformEntries(i, it.uniforms[i + 1]), max, i + 1)
    ELSE output

\* FosterShaderGetUniforms.  The caller passes an array of max entries; an entry written
\* at position max lies behind it.
FosterShaderGetUniforms(shader, max, ub) ==
    Public("FosterShaderGetUniforms", "shaderGetUniforms", <<shader, max>>,
        /\ ValidShader(shader)
        /\ \E output \in {FosterShaderGetUniforms_OpenGL(shaders[shader], <<>>, max, 0)} :
              LET K == IF Len(output) > max /\ ub = "crash" THEN [Enter EXCEPT !.crashed = TRUE] ELSE Enter
              IN  /\ ub = "crash" => Len(output) > max
                  /\ Commit(K, "stale")
                  /\ Ran("FosterShaderGetUniforms", "shaderGetUniforms", <<shader, max>>,
                         [output |-> output, count |-> Len(output)], K, "stale")
        /\ UNCHANGED <<build, fstate, shaders, targets, meshes, sdl>>)

\* the loop of FosterShaderSetTexture_OpenGL from element i on; gives [K, slots]
RECURSIVE SetTextureLoop(_, _, _, _, _)
SetTextureLoop(K, slots, uniform, values, i) ==
    IF i < uniform.glSize /\ uniform.samplerIndex + i < FOSTER_MAX_UNIFORM_TEXTURES
    THEN LET index == uniform.samplerIndex + i
             K1 == FosterTextureReturnReference(K, slots[index])
             K2 == FosterTextureRequestReference(K1, values[i + 1])
         IN  SetTextureLoop(K2, [slots EXCEPT ![index] = values[i + 1]], uniform, values, i + 1)
    ELSE [K |-> K, slots |-> slots]

\* a type check that lets every uniform through
NotSampler2D_Never(uniform) == FALSE

\* the type check of FosterShaderSetTexture_OpenGL and FosterShaderSetSampler_OpenGL
NotSampler2D(uniform) == uniform.glType # "GL_SAMPLER_2D"

\* the index check shared by FosterShaderSetUniform/SetTexture/SetSampler_OpenGL
IndexRejected(sh, index) == index < 0 \/ index > shaders[sh].uniformCount

\* it->uniforms + index lies outside the uniform list
IndexOutside(sh, index) == index + 1 \notin DOMAIN shaders[sh].uniforms

\* the texture arrays a caller may pass: NULL or valid handles, as many as the uniform has elements
TextureValues(n) == [1 .. n -> {NULL} \cup {t \in TexAddrs : textures[t].alloc}]

\* FosterShaderSetTexture with FosterShaderSetTexture_OpenGL
FosterShaderSetTexture(shader, index, values, ub) ==
    Public("FosterShaderSetTexture", "shaderSetTexture", <<shader, index, values>>,
        LET K == Enter
            it == shaders[shader]
            done(K1, slots) ==
                /\ Commit(K1, ub)
                /\ Ran("FosterShaderSetTexture", "shaderSetTexture", <<shader, index, values>>, NULL, K1, ub)
                /\ shaders' = IF Dies(K1, ub) THEN shaders
                              ELSE [shaders EXCEPT ![shader].textures = slots]
        IN  /\ ValidShader(shader)
            /\ UNCHANGED <<build, fstate, targets, meshes, sdl>>
            /\ IF IndexRejected(shader, index)
               THEN /\ values = <<>>
                    /\ done([K EXCEPT !.errors = Append(@, "Failed to set uniform: index out of bounds")], it.textures)
               ELSE IF IndexOutside(shader, index)
               THEN \* reads past the uniform list (through NULL if the list is empty)
                    /\ values = <<>>
                    /\ IF it.uniformCount = 0 \/ ub = "crash"
                       THEN done([K EXCEPT !.crashed = TRUE], it.textures)
                       ELSE done([K EXCEPT !.errors = Append(@, "Failed to set uniform: not a Texture")], it.textures)
               ELSE IF NotSampler2D(it.uniforms[index + 1])
               THEN /\ values = <<>>
                    /\ done([K EXCEPT !.errors = Append(@, "Failed to set uniform: not a Texture")], it.textures)
               ELSE /\ values \in TextureValues(it.uniforms[index + 1].glSize)
                    /\ LET r == SetTextureLoop(K, it.textures, it.uniforms[index + 1], values, 0)
                       IN  done(r.K, r.slots))

\* the sampler states the model's callers use
Samplers ==
    {[filter |-> FOSTER_TEXTURE_FILTER_LINEAR, wrapX |-> FOSTER_TEXTURE_WRAP_CLAMP_TO_EDGE,
      wrapY |-> FOSTER_TEXTURE_WRAP_CLAMP_TO_EDGE],
     [filter |-> FOSTER_TEXTURE_FILTER_NEAREST, wrapX |-> FOSTER_TEXTURE_WRAP_REPEAT,
      wrapY |-> FOSTER_TEXTURE_WRAP_CLAMP_TO_EDGE]}

\* the loop of FosterShaderDestroy_OpenGL over the texture slots from slot i on
RECURSIVE ReturnSlots(_, _, _)
ReturnSlots(K, slots, i) ==
    IF K.crashed \/ i >= FOSTER_MAX_UNIFORM_TEXTURES THEN K
    ELSE ReturnSlots(FosterTextureReturnReference(K, slots[i]), slots, i + 1)

\* FosterShaderDestroy with FosterShaderDestroy_OpenGL
FosterShaderDestroy(shader, ub) ==
    Public("FosterShaderDestroy", "shaderDestroy", shader,
        /\ ValidShader(shader)
        /\ LET K == ReturnSlots(Emit(Enter, <<"glDeleteProgram", shaders[shader].id>>),
                                shaders[shader].textures, 0)
           IN  /\ Commit(K, ub)
               /\ Ran("FosterShaderDestroy", "shaderDestroy", shader, NULL, K, ub)
               /\ shaders' = IF Dies(K, ub) THEN shaders
                             ELSE [shaders EXCEPT ![shader] = shaderZero]
        /\ UNCHANGED <<build, fstate, targets, meshes, sdl>>)

\* the sampler arrays a caller may pass, as many as the uniform has elements
SamplerValues(n) == [1 .. n -> Samplers]

\* a sampler setter that also sends the first value to the texture in its slot at once
FosterShaderSetSampler_Eager(shader, index, values) ==
    Public("FosterShaderSetSampler", "shaderSetSampler", <<shader, index, values>>,
        LET K == Enter
            it == shaders[shader]
            done(K1, samplers) ==
                /\ Commit(K1, "stale")
                /\ Ran("FosterShaderSetSampler", "shaderSetSampler", <<shader, index, values>>, NULL, K1, "stale")
                /\ shaders' = [shaders EXCEPT ![shader].samplers = samplers]
        IN  /\ ValidShader(shader)
            /\ UNCHANGED <<build, fstate, targets, meshes, sdl>>
            /\ IF IndexRejected(shader, index)
               THEN /\ values = <<>>
                    /\ done([K EXCEPT !.errors = Append(@, "Failed to set uniform: index out of bounds")], it.samplers)
               ELSE IF IndexOutside(shader, index)
               THEN \* reads past the uniform list (through NULL if the list is empty)
                    /\ values = <<>>
                    /\ \E ub \in UBOutcomes :
                           IF it.uniformCount = 0 \/ ub = "crash"
                           THEN done([K EXCEPT !.crashed = TRUE], it.samplers)
                           ELSE done([K EXCEPT !.errors = Append(@, "Failed to set uniform: not a Sampler")], it.samplers)
               ELSE IF NotSampler2D(it.uniforms[index + 1])
               THEN /\ values = <<>>
                    /\ done([K EXCEPT !.errors = Append(@, "Failed to set uniform: not a Sampler")], it.samplers)
               ELSE LET u == it.uniforms[index + 1]
                    IN  /\ values \in SamplerValues(u.glSize)
                        /\ done(IF it.textures[u.samplerIndex] # NULL
                                THEN FosterSetTextureSampler(K, it.textures[u.samplerIndex], values[1])
                                ELSE K,
                                [i \in TextureSlots |->
                                    IF i >= u.samplerIndex /\ i < u.samplerIndex + u.glSize
                                    THEN values[i - u.samplerIndex + 1] ELSE it.samplers[i]]))

\* FosterShaderSetSampler with FosterShaderSetSampler_OpenGL
FosterShaderSetSampler(shader, index, values) ==
    Public("FosterShaderSetSampler", "shaderSetSampler", <<shader, index, values>>,
        LET K == Enter
            it == shaders[shader]
            done(K1, samplers) ==
                /\ Commit(K1, "stale")
                /\ Ran("FosterShaderSetSampler", "shaderSetSampler", <<shader, index, values>>, NULL, K1, "stale")
                /\ shaders' = [shaders EXCEPT ![shader].samplers = samplers]
        IN  /\ ValidShader(shader)
            /\ UNCHANGED <<build, fstate, targets, meshes, sdl>>
            /\ IF IndexRejected(shader, index)
               THEN /\ values = <<>>
                    /\ done([K EXCEPT !.errors = Append(@, "Failed to set uniform: index out of bounds")], it.samplers)
               ELSE IF IndexOutside(shader, index)
               THEN \* reads past the uniform list (through NULL if the list is empty)
                    /\ values = <<>>
                    /\ \E ub \in UBOutcomes :
                           IF it.uniformCount = 0 \/ ub = "crash"
                           THEN done([K EXCEPT !.crashed = TRUE], it.samplers)
                           ELSE done([K EXCEPT !.errors = Append(@, "Failed to set uniform: not a Sampler")], it.samplers)
               ELSE IF NotSampler2D(it.uniforms[index + 1])
               THEN /\ values = <<>>
                    /\ done([K EXCEPT !.errors = Append(@, "Failed to set uniform: not a Sampler")], it.samplers)
               ELSE LET u == it.uniforms[index + 1]
                    IN  /\ values \in SamplerValues(u.glSize)
                        /\ done(K, [i \in TextureSlots |->
                                    IF i >= u.samplerIndex /\ i < u.samplerIndex + u.glSize
                                    THEN values[i - u.samplerIndex + 1] ELSE it.samplers[i]]))

\* FosterShaderSetUniform with FosterShaderSetUniform_OpenGL.  The uniform types of the
\* model's programs are GL_FLOAT_VEC4 and GL_SAMPLER_2D.
FosterShaderSetUniform(shader, index, values) ==
    Public("FosterShaderSetUniform", "shaderSetUniform", <<shader, index, values>>,
        LET K == Enter
            it == shaders[shader]
            done(K1) ==
                /\ Commit(K1, "stale")
                /\ Ran("FosterShaderSetUniform", "shaderSetUniform", <<shader, index, values>>, NULL, K1, "stale")
            K2 == FosterBindProgram(K, it.id)
        IN  /\ ValidShader(shader)
            /\ UNCHANGED <<build, fstate, shaders, targets, meshes, sdl>>
            /\ IF IndexRejected(shader, index)
               THEN done([K EXCEPT !.errors = Append(@, "Failed to set uniform: index out of bounds")])
               ELSE IF IndexOutside(shader, index)
               THEN \* reads past the uniform list (through NULL if the list is empty)
                    \E ub \in UBOutcomes :
                        IF it.uniformCount = 0 \/ ub = "crash"
                        THEN done([K2 EXCEPT !.crashed = TRUE])
                        ELSE done([K2 EXCEPT !.errors = Append(@, "Failed to set uniform: unsupported type")])
               ELSE IF it.uniforms[index + 1].glType = "GL_FLOAT_VEC4"
               THEN done(Emit(K2, <<"glUniform4fv", it.uniforms[index + 1].glLocation,
                                    it.uniforms[index + 1].glSize, values>>))
               ELSE done([K2 EXCEPT !.errors = Append(@, "Failed to set uniform: unsupported type")]))

----------------------------------------------------------------------------
(* Targets *)

\* the attachment format lists callers pass to FosterTargetCreate; 99 is no texture format
AttachmentLists ==
    {<<FOSTER_TEXTURE_FORMAT_R8G8B8A8>>,
     <<FOSTER_TEXTURE_FORMAT_R8G8B8A8, FOSTER_TEXTURE_FORMAT_DEPTH24_STENCIL8>>,
     <<99>>,
     <<FOSTER_TEXTURE_FORMAT_R8G8B8A8, 99>>}

TargetSizes == {<<2, 2>>}

FreeTargetAddrs == {a \in TargetAddrs : ~targets[a].alloc}
ValidTarget(t) == t \in TargetAddrs /\ targets[t].alloc

\* the failure branch of the attachment loop of FosterTargetCreate_OpenGL at attachment i:
\* FosterTextureDestroy_OpenGL is called i times with the pointer that was just found NULL
RECURSIVE DestroyFailed(_, _, _)
DestroyFailed(K, tex, j) ==
    IF j = 0 THEN K ELSE DestroyFailed(FosterTextureDestroy_OpenGL(K, tex), tex, j - 1)

\* every colour attachment at GL_COLOR_ATTACHMENT0
AttachmentPoint_FirstSlot(format, colorAttachmentCount) ==
    IF format = FOSTER_TEXTURE_FORMAT_DEPTH24_STENCIL8 THEN <<"GL_DEPTH_STENCIL_ATTACHMENT", 0>>
    ELSE <<"GL_COLOR_ATTACHMENT0", 0>>

\* tex->glAttachment as the attachment loop sets it for a texture of the given format
AttachmentPoint(format, colorAttachmentCount) ==
    IF format = FOSTER_TEXTURE_FORMAT_DEPTH24_STENCIL8 THEN <<"GL_DEPTH_STENCIL_ATTACHMENT", 0>>
    ELSE <<"GL_COLOR_ATTACHMENT0", colorAttachmentCount>>

\* the attachment loop of FosterTargetCreate_OpenGL from attachment i (0-based) on;
\* S = [K, attachments, colorAttachmentCount, failed]
RECURSIVE CreateAttachments(_, _, _, _, _, _, _)
CreateAttachments(S, width, height, formats, names, addrs, i) ==
    IF i >= Len(formats) \/ S.failed THEN S
    ELSE LET r == FosterTextureCreate_OpenGL(S.K, width, height, formats[i + 1], names[i + 1], addrs[i + 1])
         IN  IF r.ret = NULL
             THEN [S EXCEPT !.K = LET K1 == DestroyFailed(r.K, r.ret, i)
                                  IN  IF K1.crashed THEN K1
                                      ELSE [K1 EXCEPT !.errors = Append(@, "Failed to create Target Attachment")],
                            !.failed = TRUE]
             ELSE LET depth == formats[i + 1] = FOSTER_TEXTURE_FORMAT_DEPTH24_STENCIL8
                      att == AttachmentPoint(formats[i + 1], S.colorAttachmentCount)
                      K1 == [r.K EXCEPT !.tex[r.ret].glAttachment = att]
                  IN  CreateAttachments(
                        [K |-> Emit(K1, <<"glFramebufferTexture2D", att, names[i + 1]>>),
                         attachments |-> [S.attachments EXCEPT ![i] = r.ret],
                         colorAttachmentCount |-> IF depth THEN S.colorAttachmentCount
                                                  ELSE S.colorAttachmentCount + 1,
                         failed |-> FALSE],
                        width, height, formats, names, addrs, i + 1)

IsInjective(f) == \A i, j \in DOMAIN f : f[i] = f[j] => i = j

\* FosterTargetCreate with FosterTargetCreate_OpenGL.  fb: what glGenFramebuffers returns;
\* names, addrs: what glGenTextures and SDL_malloc return for each attachment.
FosterTargetCreate(width, height, formats, fb, names, addrs, addr, ub) ==
    Public("FosterTargetCreate", "targetCreate", <<width, height, formats>>,
        LET K0 == Emit(Emit(Enter, <<"glGenFramebuffers", fb>>), <<"glBindFramebuffer", fb>>)
            S == CreateAttachments(
                    [K |-> K0,
                     attachments |-> [i \in 0 .. (FOSTER_MAX_TARGET_ATTACHMENTS - 1) |-> NULL],
                     colorAttachmentCount |-> 0, failed |-> FALSE],
                    width, height, formats, names, addrs, 0)
            K == FosterBindFrameBuffer(S.K, NULL)
        IN  /\ fb \in FreshNames(gl.framebufferNames) \ {0}
            /\ addr \in FreeTargetAddrs
            /\ Len(names) = Len(formats) /\ Len(addrs) = Len(formats)
            /\ \A i \in DOMAIN names : names[i] \in {0} \cup ((1 .. MaxHeap) \ gl.textureNames)
            /\ \A i \in DOMAIN addrs : addrs[i] \in HeapAddrs /\ ~textures[addrs[i]].alloc
            /\ IsInjective(addrs)
            /\ \A i, j \in DOMAIN names : (names[i] = names[j] /\ names[i] # 0) => i = j
            /\ Commit(K, ub)
            /\ Ran("FosterTargetCreate", "targetCreate", <<width, height, formats>>,
                   IF S.failed THEN NULL ELSE addr, K, ub)
            /\ targets' = IF S.failed \/ Dies(K, ub) THEN targets
                          ELSE [targets EXCEPT ![addr] =
                                  [alloc |-> TRUE, id |-> fb, width |-> width, height |-> height,
                                   attachmentCount |-> Len(formats),
                                   colorAttachmentCount |-> S.colorAttachmentCount,
                                   attachments |-> S.attachments]]
            /\ UNCHANGED <<build, fstate, shaders, meshes, sdl>>)

\* FosterTargetGetAttachment with FosterTargetGetAttachment_OpenGL
FosterTargetGetAttachment(target, index) ==
    Public("FosterTargetGetAttachment", "targetGetAttachment", <<target, index>>,
        /\ ValidTarget(target)
        /\ calls' = <<>>
        /\ IF index < 0 \/ index >= FOSTER_MAX_TARGET_ATTACHMENTS
           THEN op' = [opNone EXCEPT !.kind = "FosterTargetGetAttachment", !.arg = <<target, index>>,
                                     !.ret = NULL]
           ELSE op' = [opNone EXCEPT !.kind = "FosterTargetGetAttachment", !.arg = <<target, index>>,
                                     !.ret = targets[target].attachments[index],
                                     !.device = <<"targetGetAttachment">>]
        /\ UNCHANGED <<build, fstate, fgl, gl, textures, shaders, targets, meshes, sdl, proc>>)

\* a loop that destroys the first attachment only
DestroyAttachments_FirstOnly(K, attachments, i) ==
    IF attachments[0] # NULL THEN FosterTextureDestroy_OpenGL(K, attachments[0]) ELSE K

\* the loop of FosterTargetDestroy_OpenGL over the attachments from i on
RECURSIVE DestroyAttachments(_, _, _)
DestroyAttachments(K, attachments, i) ==
    IF K.crashed \/ i >= FOSTER_MAX_TARGET_ATTACHMENTS THEN K
    ELSE DestroyAttachments(
            IF attachments[i] # NULL THEN FosterTextureDestroy_OpenGL(K, attachments[i]) ELSE K,
            attachments, i + 1)

\* FosterTargetDestroy with FosterTargetDestroy_OpenGL
FosterTargetDestroy(target, ub) ==
    Public("FosterTargetDestroy", "targetDestroy", target,
        /\ ValidTarget(target)
        /\ LET K == Emit(DestroyAttachments(Enter, targets[target].attachments, 0),
                         <<"glDeleteFramebuffers", targets[target].id>>)
           IN  /\ Commit(K, ub)
               /\ Ran("FosterTargetDestroy", "targetDestroy", target, NULL, K, ub)
               /\ targets' = IF Dies(K, ub) THEN targets
                             ELSE [targets EXCEPT ![target] = targetZero]
        /\ UNCHANGED <<build, fstate, shaders, meshes, sdl>>)

----------------------------------------------------------------------------
(* Meshes *)

FreeMeshAddrs == {a \in MeshAddrs : ~meshes[a].alloc}
ValidMesh(m) == m \in MeshAddrs /\ meshes[m].alloc

\* FosterMeshCreate with FosterMeshCreate_OpenGL.  name: what glGenVertexArrays returns.
FosterMeshCreate(name, addr) ==
    Public("FosterMeshCreate", "meshCreate", <<>>,
        LET K == Emit(Enter, <<"glGenVertexArrays", name>>)
        IN  /\ name \in FreshNames(gl.vertexArrayNames)
            /\ addr \in FreeMeshAddrs
            /\ IF name = 0
               THEN /\ Commit([K EXCEPT !.errors = Append(@, "Failed to create Mesh")], "stale")
                    /\ Ran("FosterMeshCreate", "meshCreate", <<>>, NULL,
                           [K EXCEPT !.errors = Append(@, "Failed to create Mesh")], "stale")
                    /\ UNCHANGED meshes
               ELSE /\ Commit(K, "stale")
                    /\ Ran("FosterMeshCreate", "meshCreate", <<>>, addr, K, "stale")
                    /\ meshes' = [meshes EXCEPT ![addr] = [alloc |-> TRUE, id |-> name,
                                                         indexBuffer |-> 0, vertexBuffer |-> 0,
                                                         indexFormat |-> "indeterminate",
                                                         indexSize |-> Uninitialised,
                                                         vertexBufferSize |-> 0,
                                                         indexBufferSize |-> 0]]
            /\ UNCHANGED <<build, fstate, shaders, targets, sdl>>)

\* FosterMeshSetIndexFormat_OpenGL: the mesh record after the switch
FosterMeshSetIndexFormat_OpenGL(it, format) ==
    CASE format = FOSTER_INDEX_FORMAT_SIXTEEN ->
            [it EXCEPT !.indexFormat = "GL_UNSIGNED_SHORT", !.indexSize = 2]
      [] format = FOSTER_INDEX_FORMAT_THIRTY_TWO ->
            [it EXCEPT !.indexFormat = "GL_UNSIGNED_INT", !.indexSize = 4]
      [] OTHER -> it

\* FosterMeshSetIndexFormat
FosterMeshSetIndexFormat(mesh, format) ==
    Public("FosterMeshSetIndexFormat", "meshSetIndexFormat", <<mesh, format>>,
        LET K == IF format \in {FOSTER_INDEX_FORMAT_SIXTEEN, FOSTER_INDEX_FORMAT_THIRTY_TWO}
                 THEN Enter
                 ELSE [Enter EXCEPT !.errors = Append(@, "Invalid Index Format")]
        IN  /\ ValidMesh(mesh)
            /\ Commit(K, "stale")
            /\ Ran("FosterMeshSetIndexFormat", "meshSetIndexFormat", <<mesh, format>>, NULL, K, "stale")
            /\ meshes' = [meshes EXCEPT ![mesh] = FosterMeshSetIndexFormat_OpenGL(meshes[mesh], format)]
            /\ UNCHANGED <<build, fstate, shaders, targets, sdl>>)

\* an upload that allocates a new data store every time
MeshUpload_AlwaysAllocates(K, id, buffer, bufferSize, target, name, data, dataSize, dataDestOffset) ==
    LET K1 == FosterBindArray(K, id)
        K2 == IF buffer = 0 THEN Emit(K1, <<"glGenBuffers", name>>) ELSE K1
        b == IF buffer = 0 THEN name ELSE buffer
        K3 == Emit(K2, <<"glBindBuffer", target, b>>)
        totalSize == dataDestOffset + dataSize
        K4 == Emit(K3, <<"glBufferData", target, totalSize>>)
    IN  [K |-> Emit(K4, <<"glBufferSubData", target, dataDestOffset, dataSize, data>>),
         buffer |-> b,
         bufferSize |-> totalSize]

\* the common body of FosterMeshSetVertexData_OpenGL and FosterMeshSetIndexData_OpenGL for
\* a mesh with vertex array id, on its buffer of the given target; name: what
\* glGenBuffers returns.  Gives [K, buffer, bufferSize].
MeshUpload(K, id, buffer, bufferSize, target, name, data, dataSize, dataDestOffset) ==
    LET K1 == FosterBindArray(K, id)
        K2 == IF buffer = 0 THEN Emit(K1, <<"glGenBuffers", name>>) ELSE K1
        b == IF buffer = 0 THEN name ELSE buffer
        K3 == Emit(K2, <<"glBindBuffer", target, b>>)
        totalSize == dataDestOffset + dataSize
        K4 == IF totalSize > bufferSize THEN Emit(K3, <<"glBufferData", target, totalSize>>) ELSE K3
    IN  [K |-> Emit(K4, <<"glBufferSubData", target, dataDestOffset, dataSize, data>>),
         buffer |-> b,
         bufferSize |-> IF totalSize > bufferSize THEN totalSize ELSE bufferSize]

\* FosterMeshSetVertexData with FosterMeshSetVertexData_OpenGL; data holds dataSize bytes
FosterMeshSetVertexData(mesh, name, data, dataSize, dataDestOffset) ==
    Public("FosterMeshSetVertexData", "meshSetVertexData", <<mesh, data, dataSize, dataDestOffset>>,
        /\ ValidMesh(mesh)
        /\ Len(data) = dataSize
        /\ meshes[mesh].vertexBuffer = 0 => name \in (1 .. MaxGLNames) \ gl.bufferNames
        /\ \E r \in {MeshUpload(Enter, meshes[mesh].id, meshes[mesh].vertexBuffer,
                                 meshes[mesh].vertexBufferSize, "GL_ARRAY_BUFFER", name,
                                 data, dataSize, dataDestOffset)} :
              /\ Commit(r.K, "stale")
              /\ Ran("FosterMeshSetVertexData", "meshSetVertexData",
                     <<mesh, data, dataSize, dataDestOffset>>, NULL, r.K, "stale")
              /\ meshes' = [meshes EXCEPT ![mesh].vertexBuffer = r.buffer,
                                          ![mesh].vertexBufferSize = r.bufferSize]
        /\ UNCHANGED <<build, fstate, shaders, targets, sdl>>)

\* FosterMeshSetIndexData with FosterMeshSetIndexData_OpenGL; data holds dataSize bytes
FosterMeshSetIndexData(mesh, name, data, dataSize, dataDestOffset) ==
    Public("FosterMeshSetIndexData", "meshSetIndexData", <<mesh, data, dataSize, dataDestOffset>>,
        /\ ValidMesh(mesh)
        /\ Len(data) = dataSize
        /\ meshes[mesh].indexBuffer = 0 => name \in (1 .. MaxGLNames) \ gl.bufferNames
        /\ \E r \in {MeshUpload(Enter, meshes[mesh].id, meshes[mesh].indexBuffer,
                                 meshes[mesh].indexBufferSize, "GL_ELEMENT_ARRAY_BUFFER", name,
                                 data, dataSize, dataDestOffset)} :
              /\ Commit(r.K, "stale")
              /\ Ran("FosterMeshSetIndexData", "meshSetIndexData",
                     <<mesh, data, dataSize, dataDestOffset>>, NULL, r.K, "stale")
              /\ meshes' = [meshes EXCEPT ![mesh].indexBuffer = r.buffer,
                                          ![mesh].indexBufferSize = r.bufferSize]
        /\ UNCHANGED <<build, fstate, shaders, targets, sdl>>)

\* FosterMeshDestroy with FosterMeshDestroy_OpenGL
FosterMeshDestroy(mesh) ==
    Public("FosterMeshDestroy", "meshDestroy", mesh,
        /\ ValidMesh(mesh)
        /\ LET K1 == IF meshes[mesh].vertexBuffer # 0
                     THEN Emit(Enter, <<"glDeleteBuffers", meshes[mesh].vertexBuffer>>) ELSE Enter
               K2 == IF meshes[mesh].indexBuffer # 0
                     THEN Emit(K1, <<"glDeleteBuffers", meshes[mesh].indexBuffer>>) ELSE K1
           IN  Commit(IF meshes[mesh].id # 0
                      THEN Emit(K2, <<"glDeleteVertexArrays", meshes[mesh].id>>) ELSE K2, "stale")
        /\ Ran("FosterMeshDestroy", "meshDestroy", mesh, NULL, Enter, "stale")
        /\ meshes' = [meshes EXCEPT ![mesh] = meshZero]
        /\ UNCHANGED <<build, fstate, shaders, targets, sdl>>)

----------------------------------------------------------------------------
(* Draw and clear *)

\* the first loop of FosterDraw_OpenGL: the sampler state of every assigned texture
RECURSIVE UpdateSamplers(_, _, _)
UpdateSamplers(K, shader, i) ==
    IF K.crashed \/ i >= FOSTER_MAX_UNIFORM_TEXTURES THEN K
    ELSE UpdateSamplers(
            IF shader.textures[i] # NULL
            THEN FosterSetTextureSampler(K, shader.textures[i], shader.samplers[i])
            ELSE K,
            shader, i + 1)

\* a draw that binds whatever the slot holds, disposed or not
BindsTexture_AlsoDisposed(K, tex) == tex # NULL

\* is the texture in a slot bound by FosterDraw_OpenGL
BindsTexture(K, tex) == tex # NULL /\ K.tex[tex].disposed = 0

\* the inner loop of FosterDraw_OpenGL over the elements of one sampler uniform from
\* element n on; S = [K, slot, textureSlots].  Indexing shader->textures or textureSlots
\* outside FOSTER_MAX_UNIFORM_TEXTURES entries is undefined: the process dies, or the read
\* finds no texture and the write does not reach the array.
RECURSIVE BindElements(_, _, _, _)
BindElements(S, shader, uniform, n) ==
    IF n < uniform.glSize /\ S.slot < FOSTER_MAX_UNIFORM_TEXTURES
    THEN LET index == uniform.samplerIndex + n
             inside == index \in TextureSlots /\ n \in TextureSlots
             tex == IF index \in TextureSlots THEN shader.textures[index] ELSE NULL
             K0 == IF tex # NULL THEN Access(S.K, tex) ELSE [S.K EXCEPT !.oob = @ \/ ~inside]
             store(slots, value) == IF n \in TextureSlots THEN [slots EXCEPT ![n] = value] ELSE slots
         IN  BindElements(
                IF BindsTexture(K0, tex)
                THEN [K |-> FosterEnsureTextureSlotIs([K0 EXCEPT !.touched = @ \cup {tex}],
                                                      S.slot, K0.tex[tex].id),
                      slot |-> S.slot + 1,
                      textureSlots |-> store(S.textureSlots, S.slot)]
                ELSE [K |-> K0,
                      slot |-> S.slot,
                      textureSlots |-> store(S.textureSlots, 0)],
                shader, uniform, n + 1)
    ELSE S

\* the loop of FosterDraw_OpenGL over the uniforms from uniform i (0-based) on
RECURSIVE BindUniforms(_, _, _)
BindUniforms(S, shader, i) ==
    IF i >= shader.uniformCount THEN S
    ELSE LET uniform == shader.uniforms[i + 1]
         IN  IF uniform.glType # "GL_SAMPLER_2D"
             THEN BindUniforms(S, shader, i + 1)
             ELSE LET S1 == BindElements(S, shader, uniform, 0)
                  IN  BindUniforms(
                        [S1 EXCEPT !.K = Emit(S1.K, <<"glUniform1iv", uniform.glLocation, uniform.glSize,
                                                     [k \in 1 .. uniform.glSize |->
                                                         IF k - 1 \in TextureSlots THEN S1.textureSlots[k - 1]
                                                         ELSE Uninitialised]>>)],
                        shader, i + 1)

\* an offset counted in indices, not in bytes
IndexStartPtr_InIndices(mesh, command) ==
    IF mesh.indexSize = Uninitialised THEN Uninitialised
    ELSE command.indexStart

\* int64_t indexStartPtr of FosterDraw_OpenGL: the product of two ints, indeterminate
\* when the index size of the mesh is
IndexStartPtr(mesh, command) ==
    IF mesh.indexSize = Uninitialised THEN Uninitialised
    ELSE mesh.indexSize * command.indexStart

\* a draw that sets the viewport and the scissor before it binds the framebuffer
FosterDraw_OpenGL_ViewportFirst(K, command) ==
    LET shader == shaders[command.shader]
        mesh == meshes[command.mesh]
        K1 == FosterSetViewport(K, command.hasViewport, command.viewport)
        K2 == FosterSetScissor(K1, command.hasScissor, command.scissor)
        K3 == FosterBindFrameBuffer(K2, command.target)
        K4 == FosterBindProgram(K3, shader.id)
        K5 == FosterBindArray(K4, mesh.id)
        K6 == FosterSetBlend(K5, command.blend)
        K7 == FosterSetCompare(K6, command.compare)
        K8 == FosterSetDepthMask(K7, command.depthMask)
        K9 == FosterSetCull(K8, command.cull)
        K10 == UpdateSamplers(K9, shader, 0)
        S == BindUniforms([K |-> K10, slot |-> 0,
                           textureSlots |-> [n \in TextureSlots |-> Uninitialised]],
                          shader, 0)
        indexStartPtr == IndexStartPtr(mesh, command)
    IN  [S EXCEPT !.K = IF command.instanceCount > 0
                        THEN Emit(S.K, <<"glDrawElementsInstanced", "GL_TRIANGLES", command.indexCount,
                                         mesh.indexFormat, indexStartPtr, command.instanceCount>>)
                        ELSE Emit(S.K, <<"glDrawElements", "GL_TRIANGLES", command.indexCount,
                                         mesh.indexFormat, indexStartPtr>>)]

\* FosterDraw_OpenGL; gives [K, slot, textureSlots]
FosterDraw_OpenGL(K, command) ==
    LET shader == shaders[command.shader]
        mesh == meshes[command.mesh]
        K1 == FosterBindFrameBuffer(K, command.target)
        K2 == FosterBindProgram(K1, shader.id)
        K3 == FosterBindArray(K2, mesh.id)
        K4 == FosterSetBlend(K3, command.blend)
        K5 == FosterSetCompare(K4, command.compare)
        K6 == FosterSetDepthMask(K5, command.depthMask)
        K7 == FosterSetCull(K6, command.cull)
        K8 == FosterSetViewport(K7, command.hasViewport, command.viewport)
        K9 == FosterSetScissor(K8, command.hasScissor, command.scissor)
        K10 == UpdateSamplers(K9, shader, 0)
        S == BindUniforms([K |-> K10, slot |-> 0,
                           textureSlots |-> [n \in TextureSlots |-> Uninitialised]],
                          shader, 0)
        indexStartPtr == IndexStartPtr(mesh, command)
    IN  [S EXCEPT !.K = IF command.instanceCount > 0
                        THEN Emit(S.K, <<"glDrawElementsInstanced", "GL_TRIANGLES", command.indexCount,
                                         mesh.indexFormat, indexStartPtr, command.instanceCount>>)
                        ELSE Emit(S.K, <<"glDrawElements", "GL_TRIANGLES", command.indexCount,
                                         mesh.indexFormat, indexStartPtr>>)]

\* FosterDraw
FosterDraw(command, ub) ==
    Public("FosterDraw", "draw", command,
        /\ command.target = NULL \/ ValidTarget(command.target)
        /\ ValidShader(command.shader)
        /\ ValidMesh(command.mesh)
        /\ LET S == FosterDraw_OpenGL(Enter, command)
           IN  /\ Commit(S.K, ub)
               /\ op' = [kind |-> "FosterDraw", arg |-> command,
                         ret |-> IF Dies(S.K, ub) THEN "crash"
                                 ELSE [units |-> S.slot, touched |-> S.K.touched],
                         device |-> <<"draw">>, errors |-> S.K.errors]
        /\ UNCHANGED <<build, fstate, shaders, targets, meshes, sdl>>)

\* a clear that leaves the write masks as the draws before it left them
FosterClear_OpenGL_KeepsMasks(K, command) ==
    LET K1 == FosterBindFrameBuffer(K, command.target)
        K2 == FosterSetViewport(K1, 1, command.clip)
        K3 == FosterSetScissor(K2, 0, K2.fgl.stateScissor)
        color == BitSet(command.mask, FOSTER_CLEAR_MASK_COLOR)
        depth == BitSet(command.mask, FOSTER_CLEAR_MASK_DEPTH)
        stencil == BitSet(command.mask, FOSTER_CLEAR_MASK_STENCIL)
        K4 == IF color THEN Emit(K3, <<"glClearColor", command.color>>) ELSE K3
        K5 == IF depth THEN Emit(K4, <<"glClearDepth", command.depth>>) ELSE K4
        K6 == IF stencil THEN Emit(K5, <<"glClearStencil", command.stencil>>) ELSE K5
    IN  Emit(K6, <<"glClear", {b \in {"GL_COLOR_BUFFER_BIT", "GL_DEPTH_BUFFER_BIT", "GL_STENCIL_BUFFER_BIT"} :
                                  \/ (b = "GL_COLOR_BUFFER_BIT" /\ color)
                                  \/ (b = "GL_DEPTH_BUFFER_BIT" /\ depth)
                                  \/ (b = "GL_STENCIL_BUFFER_BIT" /\ stencil)}>>)

\* FosterClear_OpenGL
FosterClear_OpenGL(K, command) ==
    LET K1 == FosterBindFrameBuffer(K, command.target)
        K2 == FosterSetViewport(K1, 1, command.clip)
        K3 == FosterSetScissor(K2, 0, K2.fgl.stateScissor)
        color == BitSet(command.mask, FOSTER_CLEAR_MASK_COLOR)
        depth == BitSet(command.mask, FOSTER_CLEAR_MASK_DEPTH)
        stencil == BitSet(command.mask, FOSTER_CLEAR_MASK_STENCIL)
        K4 == IF color
              THEN Emit(Emit(K3, <<"glColorMask", TRUE, TRUE, TRUE, TRUE>>),
                        <<"glClearColor", command.color>>)
              ELSE K3
        K5 == IF depth
              THEN Emit(FosterSetDepthMask(K4, 1), <<"glClearDepth", command.depth>>)
              ELSE K4
        K6 == IF stencil THEN Emit(K5, <<"glClearStencil", command.stencil>>) ELSE K5
    IN  Emit(K6, <<"glClear", {b \in {"GL_COLOR_BUFFER_BIT", "GL_DEPTH_BUFFER_BIT", "GL_STENCIL_BUFFER_BIT"} :
                                  \/ (b = "GL_COLOR_BUFFER_BIT" /\ color)
                                  \/ (b = "GL_DEPTH_BUFFER_BIT" /\ depth)
                                  \/ (b = "GL_STENCIL_BUFFER_BIT" /\ stencil)}>>)

\* FosterClear
FosterClear(command) ==
    Public("FosterClear", "clear", command,
        /\ command.target = NULL \/ ValidTarget(command.target)
        /\ Commit(FosterClear_OpenGL(Enter, command), "stale")
        /\ Ran("FosterClear", "clear", command, NULL, Enter, "stale")
        /\ UNCHANGED <<build, fstate, shaders, targets, meshes, sdl>>)

----------------------------------------------------------------------------
(* Inputs of the operations *)

\* FosterDrawCommand
DrawCommand(target, shader, mesh, blend, compare, depthMask, cull, hasViewport, viewport, hasScissor, scissor, instanceCount) ==
    [compare |-> compare, cull |-> cull, viewport |-> viewport, scissor |-> scissor,
     blend |-> blend, depthMask |-> depthMask,
     target |-> target, shader |-> shader, mesh |-> mesh,
     indexStart |-> 0, hasViewport |-> hasViewport, hasScissor |-> hasScissor,
     instanceCount |-> instanceCount, indexCount |-> 3]

\* FosterClearCommand
ClearCommand(target, clip, mask) ==
    [target |-> target, clip |-> clip, color |-> <<255, 0, 0, 255>>, depth |-> 1, stencil |-> 0,
     mask |-> mask]

\* a draw that asks for the state the backend starts with
PlainDraw(shader, mesh) ==
    DrawCommand(NULL, shader, mesh, zeroBlend, FOSTER_COMPARE_NONE, 0, FOSTER_CULL_NONE,
                0, zeroRect, 0, zeroRect, 0)

ValidDesc == [width |-> 4, height |-> 3, renderer |-> FOSTER_RENDERER_NONE]

\* sequences of at most n elements of S
SeqsUpTo(S, n) == UNION {[1 .. k -> S] : k \in 0 .. n}

----------------------------------------------------------------------------
(* Resource lifetime: textures, shaders and targets *)

\* the lowest element of a non-empty set of integers
Lowest(S) == CHOOSE x \in S : \A y \in S : x <= y

\* the k lowest elements of S in increasing order, fewer if S has fewer
RECURSIVE FirstK(_, _)
FirstK(S, k) ==
    IF k = 0 \/ S = {} THEN <<>> ELSE <<Lowest(S)>> \o FirstK(S \ {Lowest(S)}, k - 1)

\* the driver hands out the lowest unused name, the allocator the lowest free block
NextNames(used, k) == FirstK((1 .. MaxGLNames) \ used, k)
NextTexAddrs(k) == FirstK(FreeTexAddrs, k)

StartupRes ==
    \E contextOk \in BOOLEAN : FosterStartup(ValidDesc, TRUE, TRUE, contextOk)

TextureCreateRes ==
    \E name \in 1 .. MaxGLNames, addr \in TexAddrs :
        /\ <<name>> = NextNames(gl.textureNames, 1)
        /\ <<addr>> = NextTexAddrs(1)
        /\ FosterTextureCreate(2, 2, FOSTER_TEXTURE_FORMAT_R8G8B8A8, name, addr)

TextureDestroyRes ==
    \E texture \in TexAddrs, ub \in UBOutcomes : FosterTextureDestroy(texture, ub)

ShaderCreateRes ==
    \E data \in ShaderDatas, name \in 1 .. MaxGLNames, addr \in ShaderAddrs :
        /\ data.links /\ data.fragmentShader # "NULL" /\ Len(data.uniforms) = 1
        /\ <<name>> = NextNames(gl.programNames, 1)
        /\ addr = Lowest(FreeShaderAddrs \cup {addr})
        /\ FosterShaderCreate(data, name, addr)

ShaderSetTextureRes ==
    \E shader \in ShaderAddrs, values \in SeqsUpTo({NULL} \cup TexAddrs, 1), ub \in UBOutcomes :
        FosterShaderSetTexture(shader, 0, values, ub)

ShaderDestroyRes ==
    \E shader \in ShaderAddrs, ub \in UBOutcomes : FosterShaderDestroy(shader, ub)

TargetCreateRes ==
    \E fb \in 1 .. MaxGLNames, addr \in TargetAddrs, ub \in UBOutcomes :
        /\ <<fb>> = NextNames(gl.framebufferNames, 1)
        /\ FosterTargetCreate(2, 2, <<FOSTER_TEXTURE_FORMAT_R8G8B8A8>>, fb,
                              NextNames(gl.textureNames, 1), NextTexAddrs(1), addr, ub)

TargetDestroyRes ==
    \E target \in TargetAddrs, ub \in UBOutcomes : FosterTargetDestroy(target, ub)

Next ==
    \/ StartupRes
    \/ TextureCreateRes
    \/ TextureDestroyRes
    \/ ShaderCreateRes
    \/ ShaderSetTextureRes
    \/ ShaderDestroyRes
    \/ TargetCreateRes
    \/ TargetDestroyRes

Spec == Init /\ [][Next]_vars

----------------------------------------------------------------------------
(* Reference counting *)

\* the shader texture slots, over all live shaders, that point to record t
SlotsPointingTo(t) ==
    {p \in ShaderAddrs \X TextureSlots : shaders[p[1]].alloc /\ shaders[p[1]].textures[p[2]] = t}

\* C1: every texture record that has not been freed has
\* refCount = (1 if it is not disposed, else 0) + the number of shader texture slots
\* of live shaders that point to it
C1_RefCountInvariant ==
    \A t \in TexAddrs :
        textures[t].alloc =>
            textures[t].refCount =
                (IF textures[t].disposed = 0 THEN 1 ELSE 0) + Cardinality(SlotsPointingTo(t))

\* C2: no operation reads or writes a texture record after it was freed, and no
\* record is freed twice
C2_NoUseAfterFree == ~proc.uaf /\ ~proc.dfree

----------------------------------------------------------------------------
(* Draws with the textures of a shader: a shader with an array of two samplers *)

MeshCreateRes ==
    \E name \in 1 .. MaxGLNames, addr \in MeshAddrs :
        /\ <<name>> = NextNames(gl.vertexArrayNames, 1)
        /\ FosterMeshCreate(name, addr)

ShaderCreateDraw ==
    \E data \in ShaderDatas, name \in 1 .. MaxGLNames :
        /\ data.links /\ data.fragmentShader # "NULL" /\ Len(data.uniforms) = 2
        /\ <<name>> = NextNames(gl.programNames, 1)
        /\ FosterShaderCreate(data, name, Lowest(ShaderAddrs))

\* the caller assigns textures it has not destroyed
ShaderSetTextureDraw ==
    \E values \in SeqsUpTo({NULL} \cup TexAddrs, 2) :
        /\ \A i \in DOMAIN values : values[i] # NULL => textures[values[i]].disposed = 0
        /\ FosterShaderSetTexture(Lowest(ShaderAddrs), 1, values, "stale")

ShaderSetSamplerDraw ==
    \E values \in SeqsUpTo(Samplers, 2) :
        FosterShaderSetSampler(Lowest(ShaderAddrs), 1, values)

DrawDraw ==
    \E mesh \in MeshAddrs, instanceCount \in 0 .. 1 :
        FosterDraw([PlainDraw(Lowest(ShaderAddrs), mesh) EXCEPT !.instanceCount = instanceCount],
                   "stale")

NextDraw ==
    \/ StartupRes
    \/ TextureCreateRes
    \/ TextureDestroyRes
    \/ MeshCreateRes
    \/ ShaderCreateDraw
    \/ ShaderSetTextureDraw
    \/ ShaderSetSamplerDraw
    \/ DrawDraw

SpecDraw == Init /\ [][NextDraw]_vars

----------------------------------------------------------------------------
(* The state cache under draws and clears *)

\* blend descriptors callers use: all channels with the usual alpha blend, red only
NormalBlend == Blend(FOSTER_BLEND_OP_ADD, 1, 7, FOSTER_BLEND_OP_ADD, 1, 7, 15, 0)
RedOnlyBlend == [NormalBlend EXCEPT !.mask = FOSTER_BLEND_MASK_R]

\* rectangles callers use; the second has a negative width
Rects == {Rect(1, 1, 2, 1), Rect(0, 1, -1, 2)}

\* the draw commands of the model: the plain draw and draws that differ from it in one
\* setting, to the back buffer and to a target, with and without a scissor rectangle
DrawCommands(target, shader, mesh) ==
    LET plain == [PlainDraw(shader, mesh) EXCEPT !.target = target]
    IN  {plain,
         [plain EXCEPT !.blend = NormalBlend],
         [plain EXCEPT !.blend = RedOnlyBlend],
         [plain EXCEPT !.compare = FOSTER_COMPARE_LESS],
         [plain EXCEPT !.depthMask = 1],
         [plain EXCEPT !.cull = FOSTER_CULL_BACK],
         [plain EXCEPT !.hasViewport = 1, !.viewport = Rect(1, 1, 2, 1)]}
        \cup {[plain EXCEPT !.hasScissor = 1, !.scissor = r] : r \in Rects}

ClearCommands(target) ==
    {ClearCommand(target, Rect(0, 0, 4, 3), mask) :
        mask \in {FOSTER_CLEAR_MASK_COLOR, FOSTER_CLEAR_MASK_DEPTH,
                  FOSTER_CLEAR_MASK_COLOR + FOSTER_CLEAR_MASK_DEPTH + FOSTER_CLEAR_MASK_STENCIL}}
    \cup {ClearCommand(target, Rect(1, 1, 2, 1), FOSTER_CLEAR_MASK_COLOR)}

ShaderCreateState ==
    \E data \in ShaderDatas, name \in 1 .. MaxGLNames :
        /\ data.links /\ data.fragmentShader # "NULL" /\ data.uniforms = <<>>
        /\ <<name>> = NextNames(gl.programNames, 1)
        /\ FosterShaderCreate(data, name, Lowest(ShaderAddrs))

TargetCreateState ==
    \E fb \in 1 .. MaxGLNames, addr \in TargetAddrs :
        /\ <<fb>> = NextNames(gl.framebufferNames, 1)
        /\ FosterTargetCreate(2, 2, <<FOSTER_TEXTURE_FORMAT_R8G8B8A8>>, fb,
                              NextNames(gl.textureNames, 1), NextTexAddrs(1), addr, "stale")

DrawState ==
    \E target \in {NULL} \cup TargetAddrs, mesh \in MeshAddrs :
        \E command \in DrawCommands(target, Lowest(ShaderAddrs), mesh) :
            FosterDraw(command, "stale")

ClearState ==
    \E target \in {NULL} \cup TargetAddrs :
        \E command \in ClearCommands(target) : FosterClear(command)

ResizeState == \E size \in WindowSizes : ResizeWindow(size[1], size[2])

NextState ==
    \/ StartupRes
    \/ MeshCreateRes
    \/ ShaderCreateState
    \/ TargetCreateState
    \/ DrawState
    \/ ClearState
    \/ ResizeState

SpecState == Init /\ [][NextState]_vars

----------------------------------------------------------------------------
(* Bring-up, shutdown and bring-up again: the cache outlives the context *)

StartupInit ==
    \E desc \in StartupDescs, sdlInitOk \in BOOLEAN, windowOk \in BOOLEAN, contextOk \in BOOLEAN :
        FosterStartup(desc, sdlInitOk, windowOk, contextOk)

NextInit ==
    \/ StartupInit
    \/ FosterShutdown
    \/ ResizeState
    \/ ClearState
    \/ FosterBeginFrame
    \/ FosterEndFrame

SpecInit == Init /\ [][NextInit]_vars

----------------------------------------------------------------------------
(* Textures at draw time *)

\* the last operation was a FosterDraw that reached the backend and returned
DrawRan == op.kind = "FosterDraw" /\ op.device = <<"draw">> /\ ~proc.crashed

\* the elements <<i, n>> of the sampler uniforms of shader record sh: uniform i, element n
SamplerElements(sh) ==
    {e \in (1 .. Len(sh.uniforms)) \X TextureSlots :
        sh.uniforms[e[1]].glType = "GL_SAMPLER_2D" /\ e[2] < sh.uniforms[e[1]].glSize}

\* the texture slot of element e and what it holds
SlotOf(sh, e) == sh.uniforms[e[1]].samplerIndex + e[2]
Skipped(t) == t = NULL \/ textures[t].disposed # 0
LiveElements(sh) == {e \in SamplerElements(sh) : ~Skipped(sh.textures[SlotOf(sh, e)])}

\* C3: in a FosterDraw, for every sampler element whose texture is disposed or NULL no
\* texture call is issued on behalf of that texture, the unit counter is not advanced
\* for it (it ends at the number of live elements), the unit uploaded for the element
\* is 0, and every glBindTexture of the draw names the GL id of a live texture
C3_DisposedSkippedAtDraw ==
    DrawRan =>
        LET sh == shaders[op.arg.shader]
        IN  /\ \A e \in SamplerElements(sh) :
                 Skipped(sh.textures[SlotOf(sh, e)]) =>
                    /\ sh.textures[SlotOf(sh, e)] \notin op.ret.touched
                    /\ \A k \in DOMAIN calls :
                         (calls[k][1] = "glUniform1iv" /\ calls[k][2] = sh.uniforms[e[1]].glLocation)
                            => calls[k][4][e[2] + 1] = 0
            /\ op.ret.units = Cardinality(LiveElements(sh))
            /\ \A k \in DOMAIN calls :
                 calls[k][1] = "glBindTexture" =>
                    calls[k][2] \in {textures[sh.textures[SlotOf(sh, e)]].id : e \in LiveElements(sh)}

\* a draw with a shader that holds a destroyed texture in one element and a live one,
\* which the draw binds, in another
C3_Witness ==
    /\ DrawRan
    /\ \E e \in SamplerElements(shaders[op.arg.shader]) :
         /\ shaders[op.arg.shader].textures[SlotOf(shaders[op.arg.shader], e)] # NULL
         /\ Skipped(shaders[op.arg.shader].textures[SlotOf(shaders[op.arg.shader], e)])
    /\ op.ret.units = 1
    /\ \E k \in DOMAIN calls : calls[k][1] = "glBindTexture"

----------------------------------------------------------------------------
(* The colour write mask *)

\* the colour write mask a blend descriptor asks for, as glColorMask takes it
MaskOf(blend) ==
    <<BitSet(blend.mask, FOSTER_BLEND_MASK_R), BitSet(blend.mask, FOSTER_BLEND_MASK_G),
      BitSet(blend.mask, FOSTER_BLEND_MASK_B), BitSet(blend.mask, FOSTER_BLEND_MASK_A)>>

\* C4: when the draw call of a FosterDraw is issued (it is the last GL call of the
\* draw) the colour write mask of the GPU equals the blend mask of the draw command
C4_ColourMaskAtDraw == DrawRan => gl.colorMask = MaskOf(op.arg.blend)

----------------------------------------------------------------------------
(* Redundant state changes *)

\* the operation before and the operation of this step are draws that reached the
\* backend
TwoDraws ==
    /\ op.kind = "FosterDraw" /\ op.device = <<"draw">>
    /\ op'.kind = "FosterDraw" /\ op'.device = <<"draw">>
    /\ ~proc'.crashed

\* the calls of this step include a call of one of the functions fs
Issues(fs) == \E k \in DOMAIN calls' : calls'[k][1] \in fs

\* the calls of this step include glEnable or glDisable of capability cap
Toggles(cap) ==
    \E k \in DOMAIN calls' : calls'[k][1] \in {"glEnable", "glDisable"} /\ calls'[k][2] = cap

\* the size of the framebuffer a command binds
BoundSize(command) ==
    IF command.target = NULL THEN <<sdl.winW, sdl.winH>>
    ELSE <<targets[command.target].width, targets[command.target].height>>

\* what the second of two draws in a row does for the settings other than the scissor
ElidedButScissor ==
    /\ op'.arg.blend = op.arg.blend =>
          ~Issues({"glBlendEquationSeparate", "glBlendFuncSeparate", "glColorMask", "glBlendColor"})
    /\ (/\ op'.arg.hasViewport = op.arg.hasViewport
        /\ op'.arg.viewport = op.arg.viewport
        /\ BoundSize(op'.arg) = BoundSize(op.arg)) => ~Issues({"glViewport"})
    /\ op'.arg.cull = op.arg.cull => ~Issues({"glCullFace"}) /\ ~Toggles("GL_CULL_FACE")
    /\ op'.arg.compare = op.arg.compare => ~Issues({"glDepthFunc"}) /\ ~Toggles("GL_DEPTH_TEST")
    /\ op'.arg.depthMask = op.arg.depthMask => ~Issues({"glDepthMask"})

SameScissor == op'.arg.hasScissor = op.arg.hasScissor /\ op'.arg.scissor = op.arg.scissor

----------------------------------------------------------------------------
(* Bring-up *)

\* the last operation was a FosterStartup in which FosterInitialize_OpenGL succeeded
InitializeSucceeded ==
    /\ op.kind = "FosterStartup"
    /\ op.ret = "ok"
    /\ \E k \in DOMAIN op.device : op.device[k] = "initialize"

\* the calls of the last operation include call c
Issued(c) == \E k \in DOMAIN calls : calls[k] = c

\* the GL calls the setters make for the defaults when they do not consult the cache
ForcedCalls ==
    {<<"glUseProgram", 0>>, <<"glBindFramebuffer", 0>>, <<"glBindVertexArray", 0>>,
     <<"glViewport", 0, 0, sdl.winW, sdl.winH>>,
     <<"glDisable", "GL_SCISSOR_TEST">>,
     <<"glBlendEquationSeparate", FosterBlendOpToGL(0), FosterBlendOpToGL(0)>>,
     <<"glBlendFuncSeparate", FosterBlendFactorToGL(0), FosterBlendFactorToGL(0),
       FosterBlendFactorToGL(0), FosterBlendFactorToGL(0)>>,
     <<"glColorMask", FALSE, FALSE, FALSE, FALSE>>,
     <<"glBlendColor", 0, 0, 0, 0>>,
     <<"glDisable", "GL_CULL_FACE">>,
     <<"glDisable", "GL_DEPTH_TEST">>,
     <<"glDepthMask", 0>>}

\* the cache holds the defaults and the GPU state equals them
CacheAndGPUAtDefaults ==
    /\ fgl.stateProgram = 0 /\ gl.program = 0
    /\ fgl.stateFrameBuffer = 0 /\ gl.framebuffer = 0
    /\ fgl.stateVertexArray = 0 /\ gl.vertexArray = 0
    /\ fgl.stateViewport = Rect(0, 0, sdl.winW, sdl.winH) /\ gl.viewport = fgl.stateViewport
    /\ fgl.stateHasScissor = 0 /\ ~gl.scissorTest
    /\ fgl.stateBlend = zeroBlend
    /\ gl.blendEquation = <<FosterBlendOpToGL(0), FosterBlendOpToGL(0)>>
    /\ gl.blendFunc = <<FosterBlendFactorToGL(0), FosterBlendFactorToGL(0),
                        FosterBlendFactorToGL(0), FosterBlendFactorToGL(0)>>
    /\ gl.colorMask = MaskOf(zeroBlend)
    /\ gl.blendColor = <<0, 0, 0, 0>>
    /\ fgl.stateCull = FOSTER_CULL_NONE /\ ~gl.cullFaceEnabled
    /\ fgl.stateCompare = FOSTER_COMPARE_NONE /\ ~gl.depthTest
    /\ fgl.stateDepthMask = 0 /\ ~gl.depthMask

\* C6: a successful FosterInitialize_OpenGL issues the GL call of every setter whatever
\* the cache held, and leaves stateInitializing 0 and cache and GPU at the defaults;
\* stateInitializing is 0 after every operation
C6_InitializationDrivesDefaults ==
    /\ fgl.stateInitializing = 0
    /\ InitializeSucceeded =>
          /\ \A c \in ForcedCalls : Issued(c)
          /\ CacheAndGPUAtDefaults

\* a bring-up of a 4 pixel wide window that succeeded and set the depth mask
C6_Witness ==
    /\ InitializeSucceeded
    /\ Issued(<<"glDepthMask", 0>>)
    /\ sdl.winW = 4

----------------------------------------------------------------------------
(* Calls outside a running application *)

\* each guarded public operation, called while the application is not running (before
\* FosterStartup, after a FosterStartup that failed, after FosterShutdown)
TextureCreateStopped ==
    ~fstate.running /\ FosterTextureCreate(2, 2, FOSTER_TEXTURE_FORMAT_R8G8B8A8, 1, 1)

TextureSetDataStopped == ~fstate.running /\ \E texture \in TexAddrs : FosterTextureSetData(texture)

TextureDestroyStopped == ~fstate.running /\ \E texture \in TexAddrs : FosterTextureDestroy(texture, "stale")

TargetCreateStopped ==
    ~fstate.running /\ FosterTargetCreate(2, 2, <<FOSTER_TEXTURE_FORMAT_R8G8B8A8>>, 1, <<1>>, <<1>>, 1, "stale")

TargetGetAttachmentStopped ==
    ~fstate.running /\ \E target \in TargetAddrs : FosterTargetGetAttachment(target, 0)

TargetDestroyStopped == ~fstate.running /\ \E target \in TargetAddrs : FosterTargetDestroy(target, "stale")

ShaderCreateStopped ==
    ~fstate.running /\ \E data \in ShaderDatas : FosterShaderCreate(data, 1, 1)

ShaderSetTextureStopped ==
    ~fstate.running /\ \E shader \in ShaderAddrs : FosterShaderSetTexture(shader, 0, <<NULL>>, "stale")

ShaderSetSamplerStopped ==
    ~fstate.running /\ \E shader \in ShaderAddrs, values \in SeqsUpTo(Samplers, 1) :
                          FosterShaderSetSampler(shader, 0, values)

ShaderDestroyStopped == ~fstate.running /\ \E shader \in ShaderAddrs : FosterShaderDestroy(shader, "stale")

MeshCreateStopped == ~fstate.running /\ FosterMeshCreate(1, 1)

MeshDestroyStopped == ~fstate.running /\ \E mesh \in MeshAddrs : FosterMeshDestroy(mesh)

DrawStopped ==
    ~fstate.running /\ \E shader \in ShaderAddrs, mesh \in MeshAddrs : FosterDraw(PlainDraw(shader, mesh), "stale")

NextGate ==
    \/ StartupInit
    \/ FosterShutdown
    \/ FosterBeginFrame
    \/ FosterEndFrame
    \/ ClearState
    \/ ResizeState
    \/ TextureCreateStopped
    \/ TextureSetDataStopped
    \/ TextureDestroyStopped
    \/ TargetCreateStopped
    \/ TargetGetAttachmentStopped
    \/ TargetDestroyStopped
    \/ ShaderCreateStopped
    \/ ShaderSetTextureStopped
    \/ ShaderSetSamplerStopped
    \/ ShaderDestroyStopped
    \/ MeshCreateStopped
    \/ MeshDestroyStopped
    \/ DrawStopped

SpecGate == Init /\ [][NextGate]_vars

\* the public operations that start with FOSTER_ASSERT_RUNNING
GuardedOps ==
    {"FosterTextureCreate", "FosterTextureSetData", "FosterTextureDestroy",
     "FosterTargetCreate", "FosterTargetGetAttachment", "FosterTargetDestroy",
     "FosterShaderCreate", "FosterShaderSetTexture", "FosterShaderSetSampler", "FosterShaderDestroy",
     "FosterMeshCreate", "FosterMeshDestroy",
     "FosterDraw", "FosterClear", "FosterBeginFrame", "FosterEndFrame"}

StartupFailed == op.kind = "FosterStartup" /\ op.ret # "ok"

\* a guarded operation called while running is false: default result, no device call,
\* no GL call, nothing of the renderer changed
GatedStep ==
    (~fstate.running /\ op'.kind \in GuardedOps) =>
        /\ op'.device = <<>>
        /\ op'.ret = NULL
        /\ calls' = <<>>
        /\ UNCHANGED <<fstate, fgl, gl, textures, shaders, targets, meshes, sdl, proc>>

----------------------------------------------------------------------------
(* Backend selection *)

\* the last operation was a FosterStartup that reached FosterGetDevice
GetDeviceCalled ==
    /\ op.kind = "FosterStartup"
    /\ op.ret \notin {"invalid_size", "sdl_init_failed"}

\* the backend FosterGetDevice is to pick for a preference
Chosen(preferred) ==
    IF preferred = FOSTER_RENDERER_NONE THEN FOSTER_RENDERER_OPENGL ELSE preferred

\* C8: FosterGetDevice takes FOSTER_RENDERER_NONE as OpenGL and an explicit value as
\* that backend; with the backend compiled in it succeeds and every function pointer of
\* the device table is set; otherwise it fails, FosterStartup ends before
\* SDL_CreateWindow and running stays false
C8_BackendSelection ==
    GetDeviceCalled =>
        IF Chosen(op.arg.renderer) = FOSTER_RENDERER_OPENGL /\ build.opengl
        THEN /\ op.ret # "no_device"
             /\ fstate.device.renderer = FOSTER_RENDERER_OPENGL
             /\ \A f \in DeviceFunctions : fstate.device.fn[f] # "NULL"
        ELSE /\ op.ret = "no_device"
             /\ \A k \in DOMAIN calls : calls[k][1] # "SDL_CreateWindow"
             /\ op.device = <<>>
             /\ ~fstate.running
             /\ ~sdl.window

\* a start-up that asked for the backend that is not there, after one that succeeded
C8_Witness ==
    /\ op.kind = "FosterStartup"
    /\ op.ret = "no_device"
    /\ op.arg.renderer = FOSTER_RENDERER_D3D11
    /\ proc.deviceResolved

----------------------------------------------------------------------------
(* Creation with arguments that cannot be honoured *)

TextureSizes == {<<2, 2>>, <<0, 2>>, <<2, -1>>, <<GLMaxTextureSize + 1, 2>>}

TextureCreateAny ==
    \E size \in TextureSizes, format \in TextureFormats \cup {99},
       name \in 1 .. MaxGLNames, addr \in TexAddrs :
        /\ <<name>> = NextNames(gl.textureNames, 1)
        /\ <<addr>> = NextTexAddrs(1)
        /\ FosterTextureCreate(size[1], size[2], format, name, addr)

TargetCreateAny ==
    \E formats \in AttachmentLists, fb \in 1 .. MaxGLNames, addr \in TargetAddrs :
        /\ <<fb>> = NextNames(gl.framebufferNames, 1)
        /\ FosterTargetCreate(2, 2, formats, fb, NextNames(gl.textureNames, Len(formats)),
                              NextTexAddrs(Len(formats)), addr, "stale")

NextCreate ==
    \/ StartupRes
    \/ TextureCreateAny
    \/ TextureDestroyRes
    \/ TargetCreateAny
    \/ TargetDestroyRes

SpecCreate == Init /\ [][NextCreate]_vars

\* the texture records in use
Live(heap) == {a \in TexAddrs : heap[a].alloc /\ heap[a].disposed = 0}

\* FosterTargetCreate_OpenGL ran with a format list that holds an unsupported format
TargetCreateFails ==
    /\ fstate.running
    /\ op'.kind = "FosterTargetCreate"
    /\ op'.device = <<"targetCreate">>
    /\ \E i \in DOMAIN op'.arg[3] : op'.arg[3][i] \notin TextureFormats

\* C9: when an attachment cannot be created FosterTargetCreate_OpenGL returns NULL, the
\* process lives, and no texture of the call remains, on the host or on the GPU
C9_TargetCreateFailsCleanly ==
    [][TargetCreateFails =>
          /\ ~proc'.crashed
          /\ op'.ret = NULL
          /\ Live(textures') = Live(textures)
          /\ gl'.textureNames = gl.textureNames
          /\ targets' = targets]_vars

\* FosterTextureCreate_OpenGL ran with a size or a format it cannot honour
BadTextureConfig ==
    /\ fstate.running
    /\ op'.kind = "FosterTextureCreate"
    /\ op'.device = <<"textureCreate">>
    /\ \/ op'.arg[1] <= 0
       \/ op'.arg[2] <= 0
       \/ op'.arg[1] > fgl.max_texture_size
       \/ op'.arg[2] > fgl.max_texture_size
       \/ op'.arg[3] \notin TextureFormats

\* C10: on a configuration error FosterTextureCreate returns NULL and creates neither a
\* GPU texture nor a host record
C10_TextureCreateRejects ==
    [][BadTextureConfig =>
          /\ op'.ret = NULL
          /\ textures' = textures
          /\ gl'.textureNames = gl.textureNames]_vars

----------------------------------------------------------------------------
(* Viewport and scissor of a draw *)

\* the rectangle FosterSetViewport is to resolve for the last draw: the caller's
\* rectangle with y counted from the bottom of the bound framebuffer, or all of it
ViewportOf(command) ==
    IF command.hasViewport # 0
    THEN Rect(command.viewport.x,
              BoundSize(command)[2] - command.viewport.y - command.viewport.h,
              command.viewport.w, command.viewport.h)
    ELSE Rect(0, 0, BoundSize(command)[1], BoundSize(command)[2])

\* C11: after a draw with an explicit viewport (x, y, w, h) to a framebuffer of height
\* H, the rectangle given to glViewport and held by the cache is (x, H - y - h, w, h);
\* without an explicit viewport it is the whole bound framebuffer
C11_ViewportConversion ==
    DrawRan =>
        /\ fgl.stateViewport = ViewportOf(op.arg)
        /\ gl.viewport = ViewportOf(op.arg)
        /\ \A k \in DOMAIN calls :
             calls[k][1] = "glViewport" =>
                Rect(calls[k][2], calls[k][3], calls[k][4], calls[k][5]) = ViewportOf(op.arg)

\* a draw to a target with an explicit viewport that had to be set
C11_Witness ==
    /\ DrawRan
    /\ op.arg.hasViewport = 1
    /\ op.arg.target # NULL
    /\ Issued(<<"glViewport", 1, 0, 2, 1>>)

Max0(v) == IF v < 0 THEN 0 ELSE v

\* the GL scissor rectangle of a draw command with a scissor rectangle
ScissorOf(command) ==
    Rect(command.scissor.x,
         BoundSize(command)[2] - command.scissor.y - command.scissor.h,
         Max0(command.scissor.w), Max0(command.scissor.h))

\* C12: after a draw without a scissor rectangle the GPU scissor test is disabled; after
\* a draw with scissor (x, y, w, h) to a framebuffer of height H it is enabled and the
\* GPU scissor rectangle is (x, H - y - h, max(w, 0), max(h, 0))
C12_ScissorAfterDraw ==
    DrawRan =>
        IF op.arg.hasScissor = 0
        THEN ~gl.scissorTest
        ELSE gl.scissorTest /\ gl.scissor = ScissorOf(op.arg)

\* a draw whose scissor rectangle the cache already held, to a framebuffer of another
\* height than the one it was set for: the rectangle is set again
C12_Witness ==
    /\ DrawRan
    /\ op.arg.hasScissor = 1
    /\ op.arg.scissor.w < 0
    /\ op.arg.target # NULL
    /\ Issued(<<"glScissor", 0, -1, 0, 2>>)
    /\ ~Issued(<<"glEnable", "GL_SCISSOR_TEST">>)

----------------------------------------------------------------------------
(* Clears *)

\* the last operation was a FosterClear that reached the backend and returned
ClearRan == op.kind = "FosterClear" /\ op.device = <<"clear">> /\ ~proc.crashed

\* the clear mask of the last operation asks for channel bit
Clears(bit) == (op.arg.mask \div bit) % 2 = 1

\* C13: when glClear is issued the GPU viewport is all of the framebuffer the clear is
\* bound to, whatever the clip rectangle of the command, and the scissor test is off
C13_ClearFullViewport ==
    ClearRan =>
        /\ gl.viewport = Rect(0, 0, BoundSize(op.arg)[1], BoundSize(op.arg)[2])
        /\ ~gl.scissorTest

\* C14: when glClear is issued the GPU colour write mask has all four channels on if
\* the clear asks for COLOR, and the GPU depth write mask is on if it asks for DEPTH
C14_ClearNotMasked ==
    ClearRan =>
        /\ Clears(FOSTER_CLEAR_MASK_COLOR) => gl.colorMask = <<TRUE, TRUE, TRUE, TRUE>>
        /\ Clears(FOSTER_CLEAR_MASK_DEPTH) => gl.depthMask

\* a clear of colour and depth that had to turn the depth write mask on
C14_Witness ==
    /\ ClearRan
    /\ Clears(FOSTER_CLEAR_MASK_COLOR)
    /\ Clears(FOSTER_CLEAR_MASK_DEPTH)
    /\ Issued(<<"glDepthMask", 1>>)

\* the buffer bits of the channels the last clear asks for
RequestedBits ==
    {b \in {"GL_COLOR_BUFFER_BIT", "GL_DEPTH_BUFFER_BIT", "GL_STENCIL_BUFFER_BIT"} :
        \/ (b = "GL_COLOR_BUFFER_BIT" /\ Clears(FOSTER_CLEAR_MASK_COLOR))
        \/ (b = "GL_DEPTH_BUFFER_BIT" /\ Clears(FOSTER_CLEAR_MASK_DEPTH))
        \/ (b = "GL_STENCIL_BUFFER_BIT" /\ Clears(FOSTER_CLEAR_MASK_STENCIL))}

\* this step is a clear of COLOR only that reached the backend
ColourOnlyClear ==
    /\ fstate.running
    /\ op'.kind = "FosterClear" /\ op'.device = <<"clear">> /\ ~proc'.crashed
    /\ op'.arg.mask = FOSTER_CLEAR_MASK_COLOR

\* C15: a clear issues exactly one glClear, with exactly the buffer bits of the channels
\* asked for; a clear of COLOR only leaves the cached and the GPU depth write mask alone
C15_ClearOnlyRequested ==
    /\ [](ClearRan =>
            /\ Cardinality({k \in DOMAIN calls : calls[k][1] = "glClear"}) = 1
            /\ \A k \in DOMAIN calls : calls[k][1] = "glClear" => calls[k][2] = RequestedBits)
    /\ [][ColourOnlyClear =>
            /\ fgl'.stateDepthMask = fgl.stateDepthMask
            /\ gl'.depthMask = gl.depthMask]_vars

\* a clear of COLOR only while the depth write mask is off
C15_Witness ==
    /\ ClearRan
    /\ op.arg.mask = FOSTER_CLEAR_MASK_COLOR
    /\ ~gl.depthMask
    /\ fgl.stateDepthMask = 0

----------------------------------------------------------------------------
(* The order of a draw: draws that change every setting, with textures, to the back
   buffer and to a target, from a mesh with 16-bit or 32-bit indices *)

\* the last of the formats is not a FosterIndexFormat
MeshSetIndexFormatOrder ==
    \E mesh \in MeshAddrs,
       format \in {FOSTER_INDEX_FORMAT_SIXTEEN, FOSTER_INDEX_FORMAT_THIRTY_TWO, 2} :
        FosterMeshSetIndexFormat(mesh, format)

\* the caller assigns one texture it has not destroyed to the first element
ShaderSetTextureOrder ==
    \E texture \in TexAddrs :
        /\ textures[texture].disposed = 0
        /\ FosterShaderSetTexture(Lowest(ShaderAddrs), 1, <<texture>>, "stale")

\* a draw that changes every setting of the plain draw
BusyDraw(shader, mesh) ==
    DrawCommand(NULL, shader, mesh, RedOnlyBlend, FOSTER_COMPARE_LESS, 1, FOSTER_CULL_BACK,
                1, Rect(1, 1, 2, 1), 1, Rect(0, 1, 1, 1), 0)

DrawOrder ==
    \E target \in {NULL} \cup TargetAddrs, mesh \in MeshAddrs,
       indexStart \in {0, 3}, instanceCount \in {0, 2} :
        \E command \in {PlainDraw(Lowest(ShaderAddrs), mesh), BusyDraw(Lowest(ShaderAddrs), mesh)} :
            FosterDraw([command EXCEPT !.target = target, !.indexStart = indexStart,
                                       !.instanceCount = instanceCount], "stale")

NextOrder ==
    \/ StartupRes
    \/ MeshCreateRes
    \/ MeshSetIndexFormatOrder
    \/ ShaderCreateDraw
    \/ ShaderSetTextureOrder
    \/ TextureCreateRes
    \/ TargetCreateState
    \/ DrawOrder

SpecOrder == Init /\ [][NextOrder]_vars

\* the step of FosterDraw_OpenGL a GL call belongs to, in the order of the source
Stage(c) ==
    CASE c[1] \in {"glBindFramebuffer", "glDrawBuffers"} -> 1
      [] c[1] = "glUseProgram" -> 2
      [] c[1] = "glBindVertexArray" -> 3
      [] c[1] \in {"glBlendEquationSeparate", "glBlendFuncSeparate", "glColorMask", "glBlendColor"} -> 4
      [] c[1] = "glDepthFunc" \/ c \in {<<"glEnable", "GL_DEPTH_TEST">>, <<"glDisable", "GL_DEPTH_TEST">>} -> 5
      [] c[1] = "glDepthMask" -> 6
      [] c[1] = "glCullFace" \/ c \in {<<"glEnable", "GL_CULL_FACE">>, <<"glDisable", "GL_CULL_FACE">>} -> 7
      [] c[1] = "glViewport" -> 8
      [] c[1] = "glScissor" \/ c \in {<<"glEnable", "GL_SCISSOR_TEST">>, <<"glDisable", "GL_SCISSOR_TEST">>} -> 9
      [] c[1] \in {"glActiveTexture", "glBindTexture", "glTexParameteri", "glUniform1iv"} -> 10
      [] c[1] \in {"glDrawElements", "glDrawElementsInstanced"} -> 11
      [] OTHER -> 0

DrawCalls == {k \in DOMAIN calls : Stage(calls[k]) = 11}

\* C16: the GL calls of a draw come in the order framebuffer, program, vertex array,
\* blend, depth compare, depth mask, cull, viewport, scissor, textures with the upload of
\* the unit list, and then exactly one draw call, which is the last call; every viewport
\* and scissor rectangle the draw sends is converted with the height of its own target
C16_DrawOrder ==
    DrawRan =>
        /\ \A k \in DOMAIN calls : Stage(calls[k]) # 0
        /\ \A j, k \in DOMAIN calls : j < k => Stage(calls[j]) <= Stage(calls[k])
        /\ DrawCalls = {Len(calls)}
        /\ \A k \in DOMAIN calls :
                /\ calls[k][1] = "glViewport" =>
                        Rect(calls[k][2], calls[k][3], calls[k][4], calls[k][5]) = ViewportOf(op.arg)
                /\ calls[k][1] = "glScissor" =>
                        Rect(calls[k][2], calls[k][3], calls[k][4], calls[k][5]) = ScissorOf(op.arg)

\* a draw to a target that made a call in each of the eleven steps, while the back
\* buffer, which is higher than the target, was bound before it
C16_Witness ==
    /\ DrawRan
    /\ op.arg.target # NULL
    /\ {Stage(calls[k]) : k \in DOMAIN calls} = 1 .. 11
    /\ Issued(<<"glViewport", 1, 0, 2, 1>>)
    /\ Issued(<<"glScissor", 0, 0, 1, 1>>)

----------------------------------------------------------------------------
(* The draw call *)

\* the last GL call of the operation
LastCall == calls[Len(calls)]

\* C17: a draw with instanceCount > 0 ends in glDrawElementsInstanced with that instance
\* count, any other draw in glDrawElements; the offset passed is 2 * indexStart when the
\* indices are read as 16-bit values and 4 * indexStart when they are read as 32-bit
\* values
C17_DrawCallSelection ==
    DrawRan =>
        /\ op.arg.instanceCount > 0 =>
                /\ LastCall[1] = "glDrawElementsInstanced"
                /\ LastCall[6] = op.arg.instanceCount
        /\ ~(op.arg.instanceCount > 0) => LastCall[1] = "glDrawElements"
        /\ LastCall[3] = op.arg.indexCount
        /\ LastCall[4] = "GL_UNSIGNED_SHORT" => LastCall[5] = 2 * op.arg.indexStart
        /\ LastCall[4] = "GL_UNSIGNED_INT" => LastCall[5] = 4 * op.arg.indexStart

\* two instances drawn from the fourth index on of a mesh with 32-bit indices
C17_Witness ==
    /\ DrawRan
    /\ op.arg.instanceCount = 2
    /\ op.arg.indexStart = 3
    /\ LastCall = <<"glDrawElementsInstanced", "GL_TRIANGLES", 3, "GL_UNSIGNED_INT", 12, 2>>

----------------------------------------------------------------------------
(* Uniforms, textures and samplers set by index: programs without uniforms, with one
   sampler, and with a vector and an array of two samplers; indices from -1 to 2 *)

ShaderCreateUniform ==
    \E data \in ShaderDatas, name \in 1 .. MaxGLNames :
        /\ data.links /\ data.fragmentShader # "NULL"
        /\ <<name>> = NextNames(gl.programNames, 1)
        /\ FosterShaderCreate(data, name, Lowest(ShaderAddrs))

ShaderSetUniformAny ==
    \E index \in -1 .. 2 : FosterShaderSetUniform(Lowest(ShaderAddrs), index, <<1, 0, 0, 1>>)

ShaderSetTextureAny ==
    \E index \in -1 .. 2, values \in SeqsUpTo({NULL} \cup TexAddrs, 2), ub \in UBOutcomes :
        /\ \A i \in DOMAIN values : values[i] # NULL => textures[values[i]].disposed = 0
        /\ FosterShaderSetTexture(Lowest(ShaderAddrs), index, values, ub)

ShaderSetSamplerAny ==
    \E index \in -1 .. 2, values \in SeqsUpTo(Samplers, 2) :
        FosterShaderSetSampler(Lowest(ShaderAddrs), index, values)

NextUniform ==
    \/ StartupRes
    \/ TextureCreateRes
    \/ ShaderCreateUniform
    \/ ShaderSetUniformAny
    \/ ShaderSetTextureAny
    \/ ShaderSetSamplerAny

SpecUniform == Init /\ [][NextUniform]_vars

\* this step is a call of one of the three setters that reached the backend
SetterStep(kinds) ==
    /\ fstate.running
    /\ op'.kind \in kinds
    /\ op'.device # <<>>

\* the step changes nothing and logs an error
LoggedNoOp ==
    /\ ~proc'.crashed
    /\ op'.errors # <<>>
    /\ calls' = <<>>
    /\ shaders' = shaders
    /\ textures' = textures
    /\ fgl' = fgl
    /\ gl' = gl

\* C18: FosterShaderSetUniform, FosterShaderSetTexture and FosterShaderSetSampler with
\* an index < 0 or >= uniformCount log an error, issue no GL call and change neither the
\* shader nor any texture nor the cache nor the GPU, and the process survives
C18_IndexOutOfRangeNoOp ==
    [][(/\ SetterStep({"FosterShaderSetUniform", "FosterShaderSetTexture", "FosterShaderSetSampler"})
        /\ (op'.arg[2] < 0 \/ op'.arg[2] >= shaders[op'.arg[1]].uniformCount))
       => LoggedNoOp]_vars

\* the uniform a setter step names, when its index is inside the list
NamedUniform == shaders[op'.arg[1]].uniforms[op'.arg[2] + 1]

\* C19: FosterShaderSetTexture and FosterShaderSetSampler on a uniform of the list that
\* is not a sampler log an error and leave the texture slots and the sampler states of
\* the shader and every texture record, with its reference count, as they were
C19_WrongKindNoOp ==
    [][(/\ SetterStep({"FosterShaderSetTexture", "FosterShaderSetSampler"})
        /\ op'.arg[2] >= 0 /\ op'.arg[2] < shaders[op'.arg[1]].uniformCount
        /\ NamedUniform.glType # "GL_SAMPLER_2D")
       => (/\ ~proc'.crashed
           /\ op'.errors # <<>>
           /\ shaders' = shaders
           /\ textures' = textures)]_vars

\* a texture was set on the vector uniform of a shader that holds a texture in its
\* first slot
C19_Witness ==
    /\ ~proc.crashed
    /\ op.kind = "FosterShaderSetTexture" /\ op.device = <<"shaderSetTexture">>
    /\ op.arg[2] = 0
    /\ shaders[op.arg[1]].uniformCount = 2
    /\ shaders[op.arg[1]].uniforms[1].glType = "GL_FLOAT_VEC4"
    /\ shaders[op.arg[1]].textures[0] # NULL
    /\ op.errors = <<"Failed to set uniform: not a Texture">>

----------------------------------------------------------------------------
(* Samplers *)

\* the slots of shader record sh that hold texture t
SlotsHolding(sh, t) == {i \in TextureSlots : sh.textures[i] = t}

\* C20: FosterShaderSetSampler on a sampler uniform writes the values to the shader's
\* sampler descriptions samplerIndex .. samplerIndex + glSize - 1 and to nothing else: no
\* GL call, no change of any texture record, texture slot, cache or GPU state; after a
\* draw every live texture the shader holds has the sampler state of one of its slots
C20_SamplerIsLazy ==
    /\ [][(/\ SetterStep({"FosterShaderSetSampler"})
            /\ op'.arg[2] >= 0 /\ op'.arg[2] < shaders[op'.arg[1]].uniformCount
            /\ NamedUniform.glType = "GL_SAMPLER_2D")
           => (/\ ~proc'.crashed
               /\ calls' = <<>>
               /\ gl' = gl
               /\ fgl' = fgl
               /\ textures' = textures
               /\ shaders' = [shaders EXCEPT ![op'.arg[1]].samplers = shaders'[op'.arg[1]].samplers]
               /\ \A i \in TextureSlots :
                      shaders'[op'.arg[1]].samplers[i] =
                          IF i >= NamedUniform.samplerIndex /\ i < NamedUniform.samplerIndex + NamedUniform.glSize
                          THEN op'.arg[3][i - NamedUniform.samplerIndex + 1]
                          ELSE shaders[op'.arg[1]].samplers[i])]_vars
    /\ [](DrawRan =>
            \A t \in TexAddrs :
                (/\ SlotsHolding(shaders[op.arg.shader], t) # {}
                 /\ textures[t].alloc /\ textures[t].disposed = 0)
                => \E i \in SlotsHolding(shaders[op.arg.shader], t) :
                       textures[t].sampler = shaders[op.arg.shader].samplers[i])

\* a draw that sent the nearest filter and the repeat wrap, set on the shader before it,
\* to the texture in the first slot
C20_Witness ==
    /\ DrawRan
    /\ shaders[op.arg.shader].textures[0] # NULL
    /\ shaders[op.arg.shader].samplers[0].filter = FOSTER_TEXTURE_FILTER_NEAREST
    /\ textures[shaders[op.arg.shader].textures[0]].sampler = shaders[op.arg.shader].samplers[0]
    /\ Issued(<<"glTexParameteri", "GL_TEXTURE_MIN_FILTER", "GL_NEAREST">>)
    /\ Issued(<<"glTexParameteri", "GL_TEXTURE_WRAP_S", "GL_REPEAT">>)

----------------------------------------------------------------------------
(* Reflection: programs with several samplers, arrays, a uniform of a type the API has
   no name for, and a member of an array of structures *)

ReflectedPrograms ==
    {<<[glType |-> "GL_SAMPLER_2D", glSize |-> 2, name |-> <<"t", "[", "0", "]">>],
       [glType |-> "GL_FLOAT_VEC4", glSize |-> 4, name |-> <<"c", "[", "0", "]">>],
       [glType |-> "GL_SAMPLER_2D", glSize |-> 1, name |-> <<"m">>]>>,
     <<[glType |-> "GL_INT", glSize |-> 1, name |-> <<"n">>],
       [glType |-> "GL_FLOAT_MAT4", glSize |-> 1, name |-> <<"p">>]>>,
     <<[glType |-> "GL_FLOAT_VEC3", glSize |-> 1, name |-> <<"l", "[", "0", "]", ".", "p">>],
       [glType |-> "GL_SAMPLER_2D", glSize |-> 1, name |-> <<"t">>]>>}

ShaderCreateReflect ==
    \E uniforms \in Programs \cup ReflectedPrograms, name \in 1 .. MaxGLNames :
        /\ <<name>> = NextNames(gl.programNames, 1)
        /\ FosterShaderCreate([vertexShader |-> "vs", fragmentShader |-> "fs", compiles |-> TRUE,
                               links |-> TRUE, uniforms |-> uniforms],
                              name, Lowest(ShaderAddrs))

ShaderGetUniformsReflect ==
    \E max \in 0 .. 6, ub \in UBOutcomes : FosterShaderGetUniforms(Lowest(ShaderAddrs), max, ub)

ShaderSetTextureReflect ==
    \E index \in 0 .. 2, values \in SeqsUpTo({NULL} \cup TexAddrs, 2) :
        /\ \A i \in DOMAIN values : values[i] # NULL => textures[values[i]].disposed = 0
        /\ FosterShaderSetTexture(Lowest(ShaderAddrs), index, values, "stale")

ShaderSetSamplerReflect ==
    \E index \in 0 .. 2, values \in SeqsUpTo(Samplers, 2) :
        FosterShaderSetSampler(Lowest(ShaderAddrs), index, values)

NextReflect ==
    \/ StartupRes
    \/ TextureCreateRes
    \/ ShaderCreateReflect
    \/ ShaderGetUniformsReflect
    \/ ShaderSetTextureReflect
    \/ ShaderSetSamplerReflect

SpecReflect == Init /\ [][NextReflect]_vars

\* FosterShaderGetUniforms reached the backend and returned
GetUniformsRan ==
    op.kind = "FosterShaderGetUniforms" /\ op.device = <<"shaderGetUniforms">> /\ ~proc.crashed

\* the number of entries a complete listing of shader record sh has
RECURSIVE ListingSize(_, _)
ListingSize(sh, n) ==
    IF n = 0 THEN 0
    ELSE ListingSize(sh, n - 1) + (IF sh.uniforms[n].glType = "GL_SAMPLER_2D" THEN 2 ELSE 1)

\* the call had room for the complete listing
RoomForAll == op.arg[2] >= ListingSize(shaders[op.arg[1]], shaders[op.arg[1]].uniformCount)

\* the positions of the output that carry index i
EntriesOf(i) == {k \in DOMAIN op.ret.output : op.ret.output[k].index = i}

\* C21: a call of FosterShaderGetUniforms with room for the complete listing reports, for
\* every sampler uniform of the reflected list, two consecutive entries, a TEXTURE2D and a
\* SAMPLER2D one, and one entry for every other uniform, each with the position of the
\* uniform in the list as index and its array length as arrayElements; the reflected list
\* of a shader never changes while the shader lives
C21_SamplerSplitting ==
    /\ []((GetUniformsRan /\ RoomForAll) =>
            LET sh == shaders[op.arg[1]]
                output == op.ret.output
            IN  /\ op.ret.count = Len(output)
                /\ \A k \in DOMAIN output : output[k].index \in 0 .. (sh.uniformCount - 1)
                /\ \A j, k \in DOMAIN output : j < k => output[j].index <= output[k].index
                /\ \A i \in 0 .. (sh.uniformCount - 1) :
                       /\ \A k \in EntriesOf(i) : output[k].arrayElements = sh.uniforms[i + 1].glSize
                       /\ IF sh.uniforms[i + 1].glType = "GL_SAMPLER_2D"
                          THEN \E a \in DOMAIN output :
                                  /\ EntriesOf(i) = {a, a + 1}
                                  /\ output[a].type = FOSTER_UNIFORM_TYPE_TEXTURE2D
                                  /\ output[a + 1].type = FOSTER_UNIFORM_TYPE_SAMPLER2D
                          ELSE Cardinality(EntriesOf(i)) = 1)
    /\ [][\A a \in ShaderAddrs :
            (shaders[a].alloc /\ shaders'[a].alloc) => shaders'[a].uniforms = shaders[a].uniforms]_vars

\* the listing of the program with a sampler array of two, a vector array and a sampler
C21_Witness ==
    /\ GetUniformsRan
    /\ op.arg[2] = 6
    /\ [k \in DOMAIN op.ret.output |->
            <<op.ret.output[k].index, op.ret.output[k].type, op.ret.output[k].arrayElements>>]
       = <<(<<0, FOSTER_UNIFORM_TYPE_TEXTURE2D, 2>>), (<<0, FOSTER_UNIFORM_TYPE_SAMPLER2D, 2>>),
           (<<1, FOSTER_UNIFORM_TYPE_FLOAT4, 4>>),
           (<<2, FOSTER_UNIFORM_TYPE_TEXTURE2D, 1>>), (<<2, FOSTER_UNIFORM_TYPE_SAMPLER2D, 1>>)>>

\* the array lengths of the sampler uniforms among the first n uniforms of sh, added up
RECURSIVE SamplerSlots(_, _)
SamplerSlots(sh, n) ==
    IF n = 0 THEN 0
    ELSE SamplerSlots(sh, n - 1) + (IF sh.uniforms[n].glType = "GL_SAMPLER_2D" THEN sh.uniforms[n].glSize ELSE 0)

\* the slot range of uniform n (1-based) of sh
SlotRange(sh, n) == sh.uniforms[n].samplerIndex .. (sh.uniforms[n].samplerIndex + sh.uniforms[n].glSize - 1)

SamplerUniforms(sh) == {n \in DOMAIN sh.uniforms : sh.uniforms[n].glType = "GL_SAMPLER_2D"}

\* C22: in every live shader the slot range of a sampler uniform starts where the ranges
\* of the sampler uniforms before it end, the first at 0, so the ranges are pairwise
\* disjoint, and samplerCount is the sum of the array lengths; FosterShaderSetTexture and
\* FosterShaderSetSampler on a sampler uniform change no texture slot and no sampler
\* description outside the range of that uniform
C22_SlotRanges ==
    /\ [](\A a \in ShaderAddrs :
            shaders[a].alloc =>
                /\ \A n \in SamplerUniforms(shaders[a]) :
                       shaders[a].uniforms[n].samplerIndex = SamplerSlots(shaders[a], n - 1)
                /\ \A m, n \in SamplerUniforms(shaders[a]) :
                       m # n => SlotRange(shaders[a], m) \cap SlotRange(shaders[a], n) = {}
                /\ shaders[a].samplerCount = SamplerSlots(shaders[a], shaders[a].uniformCount))
    /\ [][(/\ SetterStep({"FosterShaderSetTexture", "FosterShaderSetSampler"})
            /\ op'.arg[2] >= 0 /\ op'.arg[2] < shaders[op'.arg[1]].uniformCount
            /\ NamedUniform.glType = "GL_SAMPLER_2D")
           => \A i \in TextureSlots \ SlotRange(shaders[op'.arg[1]], op'.arg[2] + 1) :
                  /\ shaders'[op'.arg[1]].textures[i] = shaders[op'.arg[1]].textures[i]
                  /\ shaders'[op'.arg[1]].samplers[i] = shaders[op'.arg[1]].samplers[i]]_vars

\* a texture was set on the third uniform, a sampler that owns slot 2, of a shader that
\* holds a texture in slot 0 of its first uniform
C22_Witness ==
    /\ ~proc.crashed
    /\ op.kind = "FosterShaderSetTexture" /\ op.device = <<"shaderSetTexture">>
    /\ op.arg[2] = 2
    /\ shaders[op.arg[1]].uniformCount = 3
    /\ shaders[op.arg[1]].uniforms[3].samplerIndex = 2
    /\ shaders[op.arg[1]].samplerCount = 3
    /\ shaders[op.arg[1]].textures[0] # NULL
    /\ shaders[op.arg[1]].textures[2] # NULL

\* the native types the API has a FosterUniformType for
RepresentableTypes ==
    {"GL_FLOAT", "GL_FLOAT_VEC2", "GL_FLOAT_VEC3", "GL_FLOAT_VEC4", "GL_FLOAT_MAT3x2", "GL_FLOAT_MAT4",
     "GL_SAMPLER_2D"}

\* C23: the listing FosterShaderGetUniforms returns has no entry for a uniform whose
\* native type is neither a sampler nor float, float2, float3, float4, 3x2 matrix or 4x4
\* matrix, and no entry of type NONE
C23_UnrepresentableExcluded ==
    GetUniformsRan =>
        /\ \A k \in DOMAIN op.ret.output : op.ret.output[k].type # FOSTER_UNIFORM_TYPE_NONE
        /\ \A i \in 0 .. (shaders[op.arg[1]].uniformCount - 1) :
               shaders[op.arg[1]].uniforms[i + 1].glType \notin RepresentableTypes => EntriesOf(i) = {}

----------------------------------------------------------------------------
(* Uniform names *)

\* FosterShaderCreate returned a shader
ShaderCreateRan ==
    op.kind = "FosterShaderCreate" /\ op.device = <<"shaderCreate">> /\ ~proc.crashed /\ op.ret # NULL

\* name ends with "[0]"
EndsWithSubscriptZero(name) ==
    Len(name) >= 3 /\ SubSeq(name, Len(name) - 2, Len(name)) = <<"[", "0", "]">>

\* C24: the name a new shader keeps for a uniform is the native name without a "[0]" at
\* its end, and the native name itself when it does not end with "[0]"
C24_NameStripping ==
    ShaderCreateRan =>
        \A n \in DOMAIN op.arg.uniforms :
            shaders[op.ret].uniforms[n].name =
                IF EndsWithSubscriptZero(op.arg.uniforms[n].name)
                THEN SubSeq(op.arg.uniforms[n].name, 1, Len(op.arg.uniforms[n].name) - 3)
                ELSE op.arg.uniforms[n].name

-----------------------------------------------------------------------------
(* Mesh data *)

\* dataSize bytes of one value
Bytes(value, dataSize) == [k \in 1 .. dataSize |-> value]

MeshSetVertexDataMesh ==
    \E mesh \in MeshAddrs, name \in 1 .. MaxGLNames, value \in 1 .. 2, dataSize \in 1 .. 3, dataDestOffset \in 0 .. 2 :
        /\ <<name>> = NextNames(gl.bufferNames, 1) \/ (gl.bufferNames = 1 .. MaxGLNames /\ name = 1)
        /\ FosterMeshSetVertexData(mesh, name, Bytes(value, dataSize), dataSize, dataDestOffset)

MeshSetIndexDataMesh ==
    \E mesh \in MeshAddrs, name \in 1 .. MaxGLNames, dataSize \in {2, 4}, dataDestOffset \in {0, 2} :
        /\ <<name>> = NextNames(gl.bufferNames, 1) \/ (gl.bufferNames = 1 .. MaxGLNames /\ name = 1)
        /\ FosterMeshSetIndexData(mesh, name, Bytes(1, dataSize), dataSize, dataDestOffset)

MeshDestroyMesh == \E mesh \in MeshAddrs : FosterMeshDestroy(mesh)

NextMesh ==
    \/ StartupRes
    \/ MeshCreateRes
    \/ MeshSetVertexDataMesh
    \/ MeshSetIndexDataMesh
    \/ MeshDestroyMesh

SpecMesh == Init /\ [][NextMesh]_vars

\* the GL calls of the given name in a sequence of calls
CallsNamed(cs, name) == SelectSeq(cs, LAMBDA c : c[1] = name)

\* what one upload step does to a buffer of the mesh it names: its buffer name and capacity
\* before (b0, c0) and after (b1, c1), for an upload of dataSize bytes at dataDestOffset
UploadGrows(target, b0, c0, b1, c1) ==
    LET data == op'.arg[2]
        dataSize == op'.arg[3]
        dataDestOffset == op'.arg[4]
        total == dataDestOffset + dataSize
    IN  /\ c1 >= c0
        /\ c1 = IF total > c0 THEN total ELSE c0
        /\ b1 # 0 /\ (b0 # 0 => b1 = b0)
        /\ CallsNamed(calls', "glBufferData") =
               IF total > c0 THEN << <<"glBufferData", target, total>> >> ELSE <<>>
        /\ CallsNamed(calls', "glBufferSubData") =
               << <<"glBufferSubData", target, dataDestOffset, dataSize, data>> >>
        /\ Len(gl'.store[b1]) = c1
        /\ \A k \in 1 .. dataSize : gl'.store[b1][dataDestOffset + k] = data[k]

\* C25: an upload of dataSize bytes at dataDestOffset reallocates the GPU buffer exactly when
\* dataDestOffset + dataSize exceeds the recorded capacity, and then to exactly that size;
\* otherwise the capacity stays (it never shrinks), no reallocation is issued, and in both
\* cases one sub-upload of the dataSize bytes at dataDestOffset follows; the data store the
\* driver holds has the recorded capacity.  The other buffer of the mesh is left alone.
C25_BuffersGrowMonotonically ==
    [][/\ (fstate.running /\ op'.kind = "FosterMeshSetVertexData" /\ op'.device # <<>>) =>
            LET m == op'.arg[1]
            IN  /\ UploadGrows("GL_ARRAY_BUFFER", meshes[m].vertexBuffer, meshes[m].vertexBufferSize,
                               meshes'[m].vertexBuffer, meshes'[m].vertexBufferSize)
                /\ meshes'[m].indexBufferSize = meshes[m].indexBufferSize
       /\ (fstate.running /\ op'.kind = "FosterMeshSetIndexData" /\ op'.device # <<>>) =>
            LET m == op'.arg[1]
            IN  /\ UploadGrows("GL_ELEMENT_ARRAY_BUFFER", meshes[m].indexBuffer, meshes[m].indexBufferSize,
                               meshes'[m].indexBuffer, meshes'[m].indexBufferSize)
                /\ meshes'[m].vertexBufferSize = meshes[m].vertexBufferSize]_vars

\* a smaller upload at offset zero into a vertex buffer that holds more: the capacity is
\* kept, no reallocation was issued and the first bytes were replaced
C25_Witness ==
    /\ ~proc.crashed
    /\ op.kind = "FosterMeshSetVertexData" /\ op.device # <<>>
    /\ op.arg[4] = 0 /\ op.arg[3] = 2
    /\ meshes[op.arg[1]].vertexBufferSize = 3
    /\ CallsNamed(calls, "glBufferData") = <<>>
    /\ CallsNamed(calls, "glBufferSubData") # <<>>
    /\ Len(gl.store[meshes[op.arg[1]].vertexBuffer]) = 3

-----------------------------------------------------------------------------
(* Targets and their attachments *)

\* the format lists of one or two attachments
TargetCreateLists ==
    \E formats \in SeqsUpTo(TextureFormats, 2) \ {<<>>}, fb \in 1 .. MaxGLNames, addr \in TargetAddrs :
        /\ <<fb>> = NextNames(gl.framebufferNames, 1)
        /\ FosterTargetCreate(2, 2, formats, fb, NextNames(gl.textureNames, Len(formats)),
                              NextTexAddrs(Len(formats)), addr, "stale")

\* the caller assigns textures it has not destroyed, among them attachments of a target
ShaderSetTextureTarget ==
    \E shader \in ShaderAddrs, values \in SeqsUpTo({NULL} \cup TexAddrs, 1) :
        /\ \A i \in DOMAIN values : values[i] # NULL => textures[values[i]].disposed = 0
        /\ FosterShaderSetTexture(shader, 0, values, "stale")

DrawTarget ==
    \E shader \in ShaderAddrs, mesh \in MeshAddrs : FosterDraw(PlainDraw(shader, mesh), "stale")

NextTarget ==
    \/ StartupRes
    \/ MeshCreateRes
    \/ ShaderCreateRes
    \/ ShaderSetTextureTarget
    \/ ShaderDestroyRes
    \/ TargetCreateLists
    \/ TargetDestroyRes
    \/ DrawTarget

SpecTarget == Init /\ [][NextTarget]_vars

\* FosterTargetCreate ran and returned a target
TargetCreated ==
    /\ fstate.running
    /\ op'.kind = "FosterTargetCreate"
    /\ ~proc'.crashed
    /\ op'.ret # NULL

\* the number of formats other than depth/stencil among the first n of a list
RECURSIVE ColourFormats(_, _)
ColourFormats(formats, n) ==
    IF n = 0 THEN 0
    ELSE ColourFormats(formats, n - 1)
         + (IF formats[n] = FOSTER_TEXTURE_FORMAT_DEPTH24_STENCIL8 THEN 0 ELSE 1)

\* the colour attachment points in use on the framebuffer fb
ColourPoints(g, fb) == {a[2] : a \in {b \in g.attached : b[1] = fb /\ b[2][1] = "GL_COLOR_ATTACHMENT0"}}

\* C26: in the target FosterTargetCreate returns, the texture made for the k-th format that
\* is not depth/stencil (k from 0, counting those formats only) is attached at colour
\* attachment k, on the record and on the GPU; the textures of depth/stencil formats take
\* no colour slot; colorAttachmentCount is the number of formats that are not depth/stencil
C26_ColourSlotsSequential ==
    [][TargetCreated =>
          LET formats == op'.arg[3]
              tar == targets'[op'.ret]
          IN  /\ tar.colorAttachmentCount = ColourFormats(formats, Len(formats))
              /\ ColourPoints(gl', tar.id) =
                    {<<"GL_COLOR_ATTACHMENT0", k>> : k \in 0 .. (tar.colorAttachmentCount - 1)}
              /\ \A i \in 1 .. Len(formats) :
                    LET tex == textures'[tar.attachments[i - 1]]
                    IN  IF formats[i] = FOSTER_TEXTURE_FORMAT_DEPTH24_STENCIL8
                        THEN tex.glAttachment = <<"GL_DEPTH_STENCIL_ATTACHMENT", 0>>
                        ELSE /\ tex.glAttachment = <<"GL_COLOR_ATTACHMENT0", ColourFormats(formats, i - 1)>>
                             /\ <<tar.id, tex.glAttachment, tex.id>> \in gl'.attached]_vars

\* a target of two colour attachments, the second at colour attachment 1
C26_Witness ==
    /\ ~proc.crashed
    /\ op.kind = "FosterTargetCreate" /\ op.ret \in TargetAddrs
    /\ targets[op.ret].colorAttachmentCount = 2
    /\ textures[targets[op.ret].attachments[1]].glAttachment = <<"GL_COLOR_ATTACHMENT0", 1>>
    /\ <<targets[op.ret].id, <<"GL_COLOR_ATTACHMENT0", 1>>, textures[targets[op.ret].attachments[1]].id>> \in gl.attached

\* the attachments of a target that are attached at the depth-stencil attachment point
DepthStencilAttachments(tar) ==
    {i \in 0 .. (FOSTER_MAX_TARGET_ATTACHMENTS - 1) :
        /\ tar.attachments[i] # NULL
        /\ textures[tar.attachments[i]].glAttachment = <<"GL_DEPTH_STENCIL_ATTACHMENT", 0>>}

\* C27: a target holds at most one attachment texture whose attachment point is the
\* depth-stencil attachment, whatever format list it was created from
C27_AtMostOneDepthStencil ==
    \A t \in TargetAddrs :
        targets[t].alloc => Cardinality(DepthStencilAttachments(targets[t])) <= 1

\* FosterTargetDestroy ran on a target
TargetDestroyed ==
    /\ fstate.running
    /\ op'.kind = "FosterTargetDestroy"
    /\ op'.device # <<>>

\* the texture records a target holds as attachments
AttachmentsOf(tar) ==
    {tar.attachments[i] : i \in 0 .. (FOSTER_MAX_TARGET_ATTACHMENTS - 1)} \ {NULL}

\* the disposed texture records that are still allocated
DisposedRecords == {a \in TexAddrs : textures[a].alloc /\ textures[a].disposed = 1}

\* the shader texture slots that point to one of the disposed records of the drawn shader
HeldDisposed(shader) ==
    {a \in DisposedRecords : \E i \in TextureSlots : shaders[shader].textures[i] = a}

\* C28: FosterTargetDestroy disposes every attachment of the target - one glDeleteTextures
\* per attachment, the creation reference returned - deletes the framebuffer and frees the
\* target; an attachment that a shader slot points to stays allocated and disposed, with one
\* reference per slot, and the others are freed.  A draw with a shader that holds a disposed
\* attachment issues no texture call for it.  When a FosterShaderSetTexture or a
\* FosterShaderDestroy leaves no slot pointing to a disposed record, the record is freed.
\* No step reads a freed record or frees one twice.  (Callers assign textures that are
\* not disposed.)
C28_TargetOwnsAttachments ==
    [][/\ ~proc'.uaf /\ ~proc'.dfree /\ ~proc'.crashed
       /\ TargetDestroyed =>
            LET tar == targets[op'.arg]
            IN  /\ ~targets'[op'.arg].alloc
                /\ CallsNamed(calls', "glDeleteFramebuffers") = << <<"glDeleteFramebuffers", tar.id>> >>
                /\ tar.id \notin gl'.framebufferNames
                /\ \A a \in AttachmentsOf(tar) :
                      /\ Len(SelectSeq(calls', LAMBDA c : c = <<"glDeleteTextures", textures[a].id>>)) = 1
                      /\ textures[a].id \notin gl'.textureNames
                      /\ textures'[a].alloc = (SlotsPointingTo(a) # {})
                      /\ textures'[a].alloc =>
                            /\ textures'[a].disposed = 1
                            /\ textures'[a].refCount = Cardinality(SlotsPointingTo(a))
       /\ (fstate.running /\ op'.kind = "FosterDraw" /\ op'.device # <<>>) =>
            HeldDisposed(op'.arg.shader) \cap op'.ret.touched = {}
       /\ \A a \in DisposedRecords :
            textures'[a].alloc = (\E p \in ShaderAddrs \X TextureSlots :
                                      shaders'[p[1]].alloc /\ shaders'[p[1]].textures[p[2]] = a)]_vars

\* a target was destroyed while a shader slot pointed to its attachment: the record is
\* allocated, disposed and has the one reference of the slot
C28_Witness ==
    /\ ~proc.crashed
    /\ op.kind = "FosterTargetDestroy" /\ op.device # <<>>
    /\ \E a \in TexAddrs :
          /\ textures[a].alloc /\ textures[a].disposed = 1 /\ textures[a].refCount = 1
          /\ SlotsPointingTo(a) # {}
          /\ <<"glDeleteTextures", textures[a].id>> \in {calls[k] : k \in DOMAIN calls}

-----------------------------------------------------------------------------
(* Texture units at a draw *)

\* the caller uploads to and reads back textures it has not destroyed
TextureSetDataBind ==
    \E texture \in TexAddrs : textures[texture].disposed = 0 /\ FosterTextureSetData(texture)

TextureGetDataBind ==
    \E texture \in TexAddrs : textures[texture].disposed = 0 /\ FosterTextureGetData(texture)

\* one shader, with one sampler or with a vec4 and an array of two samplers
ShaderCreateBind ==
    \E data \in ShaderDatas, name \in 1 .. MaxGLNames :
        /\ data.links /\ data.fragmentShader # "NULL" /\ Len(data.uniforms) \in 1 .. 2
        /\ <<name>> = NextNames(gl.programNames, 1)
        /\ FosterShaderCreate(data, name, Lowest(ShaderAddrs))

\* textures and samplers for the sampler uniform of a shader, which is its last uniform
ShaderSetTextureBind ==
    \E shader \in ShaderAddrs, values \in SeqsUpTo(TexAddrs, 2) :
        /\ \A i \in DOMAIN values : textures[values[i]].disposed = 0
        /\ FosterShaderSetTexture(shader, shaders[shader].uniformCount - 1, values, "stale")

ShaderSetSamplerBind ==
    \E shader \in ShaderAddrs, values \in SeqsUpTo(Samplers, 2) :
        FosterShaderSetSampler(shader, shaders[shader].uniformCount - 1, values)

DrawBind ==
    \E shader \in ShaderAddrs, mesh \in MeshAddrs : FosterDraw(PlainDraw(shader, mesh), "stale")

NextBind ==
    \/ StartupRes
    \/ TextureCreateRes
    \/ TextureSetDataBind
    \/ TextureGetDataBind
    \/ MeshCreateRes
    \/ ShaderCreateBind
    \/ ShaderSetTextureBind
    \/ ShaderSetSamplerBind
    \/ DrawBind

SpecBind == Init /\ [][NextBind]_vars

\* the unit the last draw uploaded for element e of the sampler uniforms of shader record sh
UnitUploaded(sh, e) ==
    LET k == CHOOSE k \in DOMAIN calls :
                 calls[k][1] = "glUniform1iv" /\ calls[k][2] = sh.uniforms[e[1]].glLocation
    IN  calls[k][4][e[2] + 1]

\* what the driver holds for a texture whose sampling state is the given sampler
GLParamsOf(sampler) ==
    [GL_TEXTURE_MIN_FILTER |-> FosterFilterToGL(sampler.filter),
     GL_TEXTURE_MAG_FILTER |-> FosterFilterToGL(sampler.filter),
     GL_TEXTURE_WRAP_S |-> FosterWrapToGL(sampler.wrapX),
     GL_TEXTURE_WRAP_T |-> FosterWrapToGL(sampler.wrapY)]

\* C29: when FosterDraw has issued its draw call, for every element of a sampler uniform
\* of the shader whose texture is live the unit uploaded for the element has that texture
\* bound on the GPU, the units of the live elements are distinct and are 0, 1, ... in
\* order, and the sampler the texture record caches and the parameters the driver holds
\* for the texture are those of the sampler the shader holds for the element's slot
C29_TextureBindingAtDraw ==
    DrawRan =>
        LET sh == shaders[op.arg.shader]
            live == LiveElements(sh)
        IN  /\ {UnitUploaded(sh, e) : e \in live} = 0 .. (Cardinality(live) - 1)
            /\ \A e, f \in live : UnitUploaded(sh, e) = UnitUploaded(sh, f) => e = f
            /\ \A e \in live :
                  LET slot == SlotOf(sh, e)
                      tex == textures[sh.textures[slot]]
                  IN  /\ gl.units[UnitUploaded(sh, e)] = tex.id
                      /\ tex.sampler = sh.samplers[slot]
                      /\ gl.params[tex.id] = GLParamsOf(sh.samplers[slot])

\* C30: for every texture unit the cached stateTextureSlots entry is the texture the
\* driver has bound to that unit
C30_CacheMirrorsUnits ==
    (fstate.running /\ ~proc.crashed /\ gl.context) =>
        \A u \in TextureSlots : fgl.stateTextureSlots[u] = gl.units[u]

-----------------------------------------------------------------------------
(* Depth test, depth mask and culling of a draw *)

\* draws that differ in compare, depth mask and cull only
DrawDepth ==
    \E mesh \in MeshAddrs, compare \in {FOSTER_COMPARE_NONE, FOSTER_COMPARE_ALWAYS, FOSTER_COMPARE_LESS}, depthMask \in 0 .. 1, cull \in {FOSTER_CULL_NONE, FOSTER_CULL_FRONT, FOSTER_CULL_BACK} :
        FosterDraw([PlainDraw(Lowest(ShaderAddrs), mesh) EXCEPT !.compare = compare, !.depthMask = depthMask, !.cull = cull], "stale")

ClearDepth ==
    \E mask \in {FOSTER_CLEAR_MASK_COLOR, FOSTER_CLEAR_MASK_DEPTH, FOSTER_CLEAR_MASK_COLOR + FOSTER_CLEAR_MASK_DEPTH} :
        FosterClear(ClearCommand(NULL, Rect(0, 0, 4, 3), mask))

NextDepth ==
    \/ StartupRes
    \/ MeshCreateRes
    \/ ShaderCreateState
    \/ DrawDepth
    \/ ClearDepth

SpecDepth == Init /\ [][NextDepth]_vars

\* C31: after each draw the GPU depth test is enabled exactly if the command's compare is
\* not NONE, and then the depth function is the command's; the GPU depth write mask is the
\* command's depth mask; face culling is enabled exactly if the command's cull is not NONE,
\* and then the culled face is the command's; the cached compare, depth mask and cull are
\* the command's
C31_DepthAndCullFollowDraw ==
    DrawRan =>
        /\ gl.depthTest = (op.arg.compare # FOSTER_COMPARE_NONE)
        /\ op.arg.compare # FOSTER_COMPARE_NONE => gl.depthFunc = CompareToGL(op.arg.compare)
        /\ gl.depthMask = (op.arg.depthMask # 0)
        /\ gl.cullFaceEnabled = (op.arg.cull # FOSTER_CULL_NONE)
        /\ op.arg.cull # FOSTER_CULL_NONE => gl.cullFace = CullToGL(op.arg.cull)
        /\ fgl.stateCompare = op.arg.compare
        /\ fgl.stateDepthMask = op.arg.depthMask
        /\ fgl.stateCull = op.arg.cull

\* a draw without depth writes while the depth mask was on (left so by a depth clear or a
\* draw): the draw turned it off, and it changed the depth function and the culled face
\* of tests that were already enabled
C31_Witness ==
    /\ DrawRan
    /\ op.arg.depthMask = 0 /\ ~gl.depthMask
    /\ <<"glDepthMask", 0>> \in {calls[k] : k \in DOMAIN calls}
    /\ op.arg.compare = FOSTER_COMPARE_ALWAYS /\ gl.depthFunc = "GL_ALWAYS"
    /\ op.arg.cull = FOSTER_CULL_FRONT /\ gl.cullFace = "GL_FRONT"
    /\ <<"glEnable", "GL_DEPTH_TEST">> \notin {calls[k] : k \in DOMAIN calls}
    /\ <<"glEnable", "GL_CULL_FACE">> \notin {calls[k] : k \in DOMAIN calls}

-----------------------------------------------------------------------------
(* The framebuffer binding after a target was created *)

\* C32: when FosterTargetCreate_OpenGL has returned, with a target or with NULL, the
\* framebuffer bound on the GPU is the cached stateFrameBuffer, and that is the default
\* framebuffer 0
C32_TargetCreateLeavesDefaultBound ==
    (fstate.running /\ ~proc.crashed /\ op.kind = "FosterTargetCreate" /\ op.device = <<"targetCreate">>) =>
        /\ gl.framebuffer = fgl.stateFrameBuffer
        /\ fgl.stateFrameBuffer = 0

-----------------------------------------------------------------------------
(* The cache after an object was destroyed *)

\* the caller destroys objects it holds and draws with objects it has not destroyed
MeshDestroyHeld == \E mesh \in MeshAddrs : meshes[mesh].alloc /\ FosterMeshDestroy(mesh)

ShaderDestroyHeld == \E shader \in ShaderAddrs : shaders[shader].alloc /\ FosterShaderDestroy(shader, "stale")

TargetDestroyHeld == \E target \in TargetAddrs : targets[target].alloc /\ FosterTargetDestroy(target, "stale")

DrawHeld ==
    \E target \in {NULL} \cup TargetAddrs, mesh \in MeshAddrs :
        /\ target # NULL => targets[target].alloc
        /\ meshes[mesh].alloc /\ shaders[Lowest(ShaderAddrs)].alloc
        /\ FosterDraw([PlainDraw(Lowest(ShaderAddrs), mesh) EXCEPT !.target = target], "stale")

NextDestroy ==
    \/ StartupRes
    \/ MeshCreateRes
    \/ ShaderCreateState
    \/ TargetCreateState
    \/ MeshDestroyHeld
    \/ ShaderDestroyHeld
    \/ TargetDestroyHeld
    \/ DrawHeld

SpecDestroy == Init /\ [][NextDestroy]_vars

\* the objects FosterDraw was given for the last draw are the ones bound on the GPU
DrawnObjectsBound ==
    /\ gl.program = shaders[op.arg.shader].id
    /\ gl.vertexArray = meshes[op.arg.mesh].id
    /\ op.arg.target # NULL => gl.framebuffer = targets[op.arg.target].id

\* C33: the framebuffer, vertex array and program the cache records as bound are 0 or
\* objects that have not been deleted, and when FosterDraw has issued its draw call the
\* program, the vertex array and the target's framebuffer of the command are bound on the GPU
C33_CacheNamesNoDestroyedObject ==
    (fstate.running /\ ~proc.crashed) =>
        /\ fgl.stateFrameBuffer \in {0} \cup gl.framebufferNames
        /\ fgl.stateVertexArray \in {0} \cup gl.vertexArrayNames
        /\ fgl.stateProgram \in {0} \cup gl.programNames
        /\ DrawRan => DrawnObjectsBound

-----------------------------------------------------------------------------
(* Assigning to a texture slot the texture it holds *)

\* the caller destroys a texture it created and has not destroyed yet
TextureDestroyReassign ==
    \E texture \in TexAddrs :
        /\ textures[texture].alloc /\ textures[texture].disposed = 0
        /\ FosterTextureDestroy(texture, "stale")

\* the caller passes two elements, each NULL or a texture whose record is alive
ShaderSetTextureReassign ==
    \E values \in [1 .. 2 -> {NULL} \cup TexAddrs], ub \in UBOutcomes :
        FosterShaderSetTexture(Lowest(ShaderAddrs), 1, values, ub)

NextReassign ==
    \/ StartupRes
    \/ TextureCreateRes
    \/ TextureDestroyReassign
    \/ ShaderCreateDraw
    \/ ShaderSetTextureReassign

SpecReassign == Init /\ [][NextReassign]_vars

\* this step is a FosterShaderSetTexture that reached the loop over the elements, in a
\* process that has not misused a record before
SetTextureStep ==
    /\ fstate.running /\ ~proc.crashed /\ ~proc.uaf /\ ~proc.dfree
    /\ op'.kind = "FosterShaderSetTexture" /\ op'.device = <<"shaderSetTexture">>
    /\ op'.arg[3] # <<>>

\* the slot the step's element i (from 1) goes to
SlotOfElement(i) == shaders[op'.arg[1]].uniforms[op'.arg[2] + 1].samplerIndex + i - 1

\* the elements of the step that are given texture t while their slot holds t
Reassigned(t) == {i \in DOMAIN op'.arg[3] : op'.arg[3][i] = t /\ shaders[op'.arg[1]].textures[SlotOfElement(i)] = t}

\* every element of the step is given what its slot holds
AllReassigned == \A i \in DOMAIN op'.arg[3] : shaders[op'.arg[1]].textures[SlotOfElement(i)] = op'.arg[3][i]

\* C34: a FosterShaderSetTexture that gives a slot the texture the slot already holds does
\* not free that texture's record and misuses no record, and when every element is given
\* its slot's occupant the reference counts are what they were
C34_ReassignIsHarmless ==
    [][SetTextureStep =>
          /\ \A t \in TexAddrs :
                Reassigned(t) # {} =>
                    /\ ~proc'.crashed /\ ~proc'.uaf /\ ~proc'.dfree
                    /\ textures'[t].alloc
          /\ (AllReassigned /\ ~proc'.crashed) =>
                \A t \in TexAddrs : textures[t].alloc => textures'[t] = textures[t]]_vars

-----------------------------------------------------------------------------
(* Records and their GPU textures *)

FreedWithoutDeleting == "Texture is being free'd without deleting its GPU Texture Data"

\* C35: a texture record whose GPU texture has not been deleted has a reference count of
\* at least 1, and no operation has taken the branch of FosterTextureReturnReference that
\* frees a record whose GPU texture is alive
C35_RecordOutlivesGPUTexture ==
    /\ \A t \in TexAddrs : (textures[t].alloc /\ textures[t].disposed = 0) => textures[t].refCount >= 1
    /\ \A k \in DOMAIN op.errors : op.errors[k] # FreedWithoutDeleting

-----------------------------------------------------------------------------
(* The bytes of a mesh buffer across uploads *)

\* the data store of GL buffer b, empty for the buffer a mesh has not generated yet
StoreOf(g, b) == IF b = 0 THEN <<>> ELSE g.store[b]

\* what one upload step does to the bytes of a buffer named b0 before and b1 after: the
\* range written holds the data, and the bytes uploaded earlier outside it are kept
UploadKeeps(b0, b1) ==
    LET data == op'.arg[2]
        dataSize == op'.arg[3]
        dataDestOffset == op'.arg[4]
        old == StoreOf(gl, b0)
        new == StoreOf(gl', b1)
    IN  /\ \A k \in 1 .. dataSize :
              dataDestOffset + k \in DOMAIN new /\ new[dataDestOffset + k] = data[k]
        /\ \A k \in DOMAIN old :
              (old[k] # Undefined /\ (k <= dataDestOffset \/ k > dataDestOffset + dataSize)) =>
                  (k \in DOMAIN new /\ new[k] = old[k])

\* C36: after FosterMeshSetVertexData or FosterMeshSetIndexData the bytes of the range
\* written equal the data, and every byte uploaded earlier outside the range has the value
\* it had, whether or not the buffer was reallocated
C36_UploadChangesOnlyItsRange ==
    [][/\ (fstate.running /\ op'.kind = "FosterMeshSetVertexData" /\ op'.device # <<>>) =>
            UploadKeeps(meshes[op'.arg[1]].vertexBuffer, meshes'[op'.arg[1]].vertexBuffer)
       /\ (fstate.running /\ op'.kind = "FosterMeshSetIndexData" /\ op'.device # <<>>) =>
            UploadKeeps(meshes[op'.arg[1]].indexBuffer, meshes'[op'.arg[1]].indexBuffer)]_vars

-----------------------------------------------------------------------------
(* Draws with shaders of many sampler elements *)

\* sampler2D uniform name[glSize] as the driver reports it
SamplerArray(name, glSize) == [glType |-> "GL_SAMPLER_2D", glSize |-> glSize, name |-> <<name, "[", "0", "]">>]

\* programs of three sampler arrays: FOSTER_MAX_UNIFORM_TEXTURES elements, and one more
WidePrograms ==
    {<<SamplerArray("a", 2), SamplerArray("b", 15), SamplerArray("c", FOSTER_MAX_UNIFORM_TEXTURES - 17)>>,
     <<SamplerArray("a", 2), SamplerArray("b", 15), SamplerArray("c", FOSTER_MAX_UNIFORM_TEXTURES - 16)>>}

ShaderCreateWide ==
    \E uniforms \in WidePrograms, name \in 1 .. MaxGLNames :
        /\ <<name>> = NextNames(gl.programNames, 1)
        /\ FosterShaderCreate([vertexShader |-> "vs", fragmentShader |-> "fs", compiles |-> TRUE,
                               links |-> TRUE, uniforms |-> uniforms], name, Lowest(ShaderAddrs))

\* the caller gives every element of the first array the same texture, or NULL
ShaderSetTextureWide ==
    \E value \in {NULL} \cup TexAddrs :
        /\ shaders[Lowest(ShaderAddrs)].alloc
        /\ value # NULL => textures[value].alloc /\ textures[value].disposed = 0
        /\ FosterShaderSetTexture(Lowest(ShaderAddrs), 0,
                                  [k \in 1 .. shaders[Lowest(ShaderAddrs)].uniforms[1].glSize |-> value],
                                  "stale")

DrawWide ==
    \E mesh \in MeshAddrs, ub \in UBOutcomes : FosterDraw(PlainDraw(Lowest(ShaderAddrs), mesh), ub)

NextWide ==
    \/ StartupRes
    \/ MeshCreateRes
    \/ TextureCreateRes
    \/ TextureDestroyReassign
    \/ ShaderCreateWide
    \/ ShaderSetTextureWide
    \/ DrawWide

SpecWide == Init /\ [][NextWide]_vars

\* the unit lists the last operation uploaded with glUniform1iv
UnitLists == {calls[k][4] : k \in {j \in DOMAIN calls : calls[j][1] = "glUniform1iv"}}

\* C37: no draw indexes shader->textures or textureSlots outside their
\* FOSTER_MAX_UNIFORM_TEXTURES entries, and every element of a unit list a draw uploads with
\* glUniform1iv was written by that draw
C37_TextureSlotIndexingInBounds ==
    /\ ~proc.oob
    /\ DrawRan => \A list \in UnitLists : \A k \in DOMAIN list : list[k] # Uninitialised

-----------------------------------------------------------------------------
(* Binding targets of many colour attachments *)

\* targets of one to MaxHeap colour attachments, and one of a colour and a depth attachment
TargetCreateAttach ==
    \E formats \in {[i \in 1 .. n |-> FOSTER_TEXTURE_FORMAT_R8G8B8A8] : n \in 1 .. MaxHeap}
                   \cup {<<FOSTER_TEXTURE_FORMAT_R8G8B8A8, FOSTER_TEXTURE_FORMAT_DEPTH24_STENCIL8>>},
       fb \in 1 .. MaxGLNames, addr \in TargetAddrs :
        /\ <<fb>> = NextNames(gl.framebufferNames, 1)
        /\ FosterTargetCreate(2, 2, formats, fb,
                              FirstK((1 .. MaxHeap) \ gl.textureNames, Len(formats)),
                              FirstK({a \in HeapAddrs : ~textures[a].alloc}, Len(formats)),
                              addr, "stale")

DrawAttach ==
    \E target \in {NULL} \cup TargetAddrs, mesh \in MeshAddrs, ub \in UBOutcomes :
        /\ target # NULL => targets[target].alloc
        /\ meshes[mesh].alloc /\ shaders[Lowest(ShaderAddrs)].alloc
        /\ FosterDraw([PlainDraw(Lowest(ShaderAddrs), mesh) EXCEPT !.target = target], ub)

NextAttach ==
    \/ StartupRes
    \/ MeshCreateRes
    \/ ShaderCreateState
    \/ TargetCreateAttach
    \/ TargetDestroyHeld
    \/ DrawAttach

SpecAttach == Init /\ [][NextAttach]_vars

\* the colour attachment points 0 .. n - 1 in order
ColourAttachments(n) == [i \in 1 .. n |-> <<"GL_COLOR_ATTACHMENT0", i - 1>>]

\* C38: FosterBindFrameBuffer never stores outside its local draw-buffer array; when a draw
\* binds a target, glDrawBuffers is given exactly the colour attachments
\* 0 .. colorAttachmentCount - 1; and a target's attachments are stored in the first
\* attachmentCount of the FOSTER_MAX_TARGET_ATTACHMENTS entries of its attachment array
C38_TargetsBindSafely ==
    /\ ~proc.oob
    /\ (DrawRan /\ op.arg.target # NULL) =>
          \A k \in DOMAIN calls :
              calls[k][1] = "glDrawBuffers" =>
                  /\ calls[k][2] = targets[op.arg.target].colorAttachmentCount
                  /\ calls[k][3] = ColourAttachments(targets[op.arg.target].colorAttachmentCount)
    /\ \A t \in TargetAddrs :
          targets[t].alloc =>
              /\ targets[t].attachmentCount <= FOSTER_MAX_TARGET_ATTACHMENTS
              /\ \A i \in 0 .. (FOSTER_MAX_TARGET_ATTACHMENTS - 1) :
                    (targets[t].attachments[i] # NULL) <=> (i < targets[t].attachmentCount)

-----------------------------------------------------------------------------
(* The capacity of the caller's array in FosterShaderGetUniforms *)

\* C39: when FosterShaderGetUniforms has run with an array of max entries, the process is
\* alive, the entries written lie at positions below max and the count returned is at
\* most max
C39_GetUniformsRespectsCapacity ==
    (fstate.running /\ op.kind = "FosterShaderGetUniforms" /\ op.device = <<"shaderGetUniforms">>) =>
        /\ ~proc.crashed
        /\ Len(op.ret.output) <= op.arg[2]
        /\ op.ret.count <= op.arg[2]

====
